---- MODULE Spec2Model ----
(***************************************************************************)
(* cornelk/hashmap: the lock-free hash map (hashmap.go, hashmap_get.go)    *)
(* over the sorted doubly linked list (List, ListElement).                 *)
(*                                                                         *)
(* Every atomic load, store and compare-and-swap of the code is one step   *)
(* of the thread that makes it; what a thread computes from its own        *)
(* variables and from immutable fields (keyHash, key, keyshifts, the slice *)
(* length) is part of the step of the shared access that precedes it.      *)
(* Threads are goroutines.  Thread 0 is the goroutine that constructs the  *)
(* map and runs its calls first (the set-up of the tests); the other       *)
(* threads run while thread 0 waits for them (sync.WaitGroup), after which  *)
(* thread 0 runs the rest of its program.  grow() runs in the grower: the  *)
(* goroutine started by "go m.grow(...)", or the caller of allocate(),     *)
(* which waits for it.                                                     *)
(***************************************************************************)
EXTENDS Integers, Naturals, Sequences, FiniteSets, TLC

\* ------------------------------------------------------------- bounds
\* Width of a hash in bits (strconv.IntSize, scaled down).
WordBits == 3
\* List elements a run may allocate.
MaxNodes == 8
\* Goroutines that run concurrently after the set-up.
NumWorkers == 2

\* ------------------------------------------------------------- program constants
DefaultSize == 8
MaxFillRate == 50

NIL == -1
\* The head sentinel of the list (List.head) is element 0.
ListHead == 0
Nodes == 1..MaxNodes
Threads == 0..NumWorkers
Workers == 1..NumWorkers
NoThread == NIL

VARIABLES
    hasher,          \* the hash function bound to the map: "default" or "static"
    key,             \* ListElement.key, 0 for an element not allocated yet
    value,           \* ListElement.value
    nextElement,     \* ListElement.nextElement, also of the head
    previousElement, \* ListElement.previousElement
    deleted,         \* ListElement.deleted
    nalloc,          \* number of elements allocated so far
    listCount,       \* List.count, as the int that Len() returns
    linkedlist,      \* HashMap.linkedlist: 0 for nil, 1 for the list
    stores,          \* every hashMapData allocated, in allocation order
    datamap,         \* HashMap.datamap: 0 for nil, else an index into stores
    resizing,        \* HashMap.resizing
    prog,            \* the calls each thread still has to make
    op,              \* the call a thread is in
    pc,              \* where in the call it is
    loc,             \* the call's local variables
    ret,             \* the result of the thread's last completed call
    gpc,             \* where the grower is in grow()
    g,               \* grow()'s local variables
    crashed,         \* a nil dereference has ended the process
    settled,         \* history: per key, what the completed writes left
    expect,          \* history: per thread, what its running Get must see
    log              \* history: the calls thread 0 has completed, with Len() after each

heapVars == <<key, value, nextElement, previousElement, deleted, nalloc, listCount>>
mapVars == <<linkedlist, stores, datamap, resizing>>
threadVars == <<prog, op, pc, loc, ret>>
growVars == <<gpc, g>>
histVars == <<settled, expect, log>>
vars == <<hasher, heapVars, mapVars, threadVars, growVars, crashed, histVars>>

\* ------------------------------------------------------------- pure functions
RECURSIVE Pow2(_)
Pow2(n) == IF n <= 0 THEN 1 ELSE 2 * Pow2(n - 1)

\* log2: the number of doublings of p = 1 until p >= i.
RECURSIVE Log2From(_, _)
Log2From(p, i) == IF p < i THEN 1 + Log2From(p + p, i) ELSE 0
log2(i) == Log2From(1, i)

\* roundUpPower2: 0 stays 0 (i-- wraps, i++ wraps back), else the least power
\* of two that is >= i.
roundUpPower2(i) == IF i = 0 THEN 0 ELSE Pow2(log2(i))

\* The keys of the model are 0 .. 2^(WordBits+1) - 1.  The default hasher maps
\* keys 2h and 2h+1 to the hash h, so every hash from 0 to the largest word
\* value has two colliding keys; the static hasher maps every key to one hash.
MaxHash == Pow2(WordBits) - 1
StaticHash == 4
Hash(k) == IF hasher = "static" THEN StaticHash ELSE k \div 2
keyHash(e) == Hash(key[e])

\* hashedKey >> keyshifts, a shift by the word width or more giving 0.
keyshifts(d) == WordBits - log2(stores[d].size)
SlotOf(d, h) ==
    IF keyshifts(d) >= WordBits THEN 0
    ELSE IF keyshifts(d) <= 0 THEN h * Pow2(0 - keyshifts(d))
    ELSE h \div Pow2(keyshifts(d))

\* resizeNeeded: a count that wrapped below zero is a huge uintptr.
resizeNeeded(d, count) ==
    IF stores[d].size = 0 THEN FALSE
    ELSE IF count < 0 THEN TRUE
    ELSE (count * 100) \div stores[d].size > MaxFillRate

NewStore(size) == [size |-> size, count |-> 0, index |-> [i \in 0..(size - 1) |-> NIL]]

\* ------------------------------------------------------------- calls
Loc0 == [fn |-> "none", data |-> 0, e |-> NIL, left |-> NIL, right |-> NIL, n |-> NIL,
         cnt |-> 0, lk |-> FALSE, seen |-> <<>>]
\* The nil value pointer, and the values the calls store.
NoValue == "nil"
Values == {"a", "b", "c"}
NoOp == [name |-> "none", k |-> 0, v |-> NoValue]
NoRet == [name |-> "none", k |-> 0, ok |-> FALSE, v |-> NoValue, lk |-> FALSE]
G0 == [newSize |-> 0, loop |-> FALSE, nd |-> 0, pass |-> 0, item |-> NIL, first |-> NIL,
       lastIndex |-> 0, e |-> NIL, owner |-> NoThread]

\* The calls of a program: the methods of HashMap, List.Add and List.Delete
\* called on the list itself, and thread 0 waiting for the other threads.
Set(k, v) == [name |-> "Set", k |-> k, v |-> v]
Insert(k, v) == [name |-> "Insert", k |-> k, v |-> v]
Get(k) == [name |-> "Get", k |-> k, v |-> NoValue]
Del(k) == [name |-> "Del", k |-> k, v |-> NoValue]
GetOrInsert(k, v) == [name |-> "GetOrInsert", k |-> k, v |-> v]
Grow(n) == [name |-> "Grow", k |-> n, v |-> NoValue]
ListAdd(k, v) == [name |-> "ListAdd", k |-> k, v |-> v]
ListDelete(k) == [name |-> "ListDelete", k |-> k, v |-> NoValue]
Wait == [name |-> "Wait", k |-> 0, v |-> NoValue]
\* The loop of the tests that sleeps until it loads 0 from m.resizing.
Rest == [name |-> "Rest", k |-> 0, v |-> NoValue]
\* for kv := range m.Iter(), the loop left (break) after stop items, or run to
\* the end of the channel for stop = 0.
Iter(stop) == [name |-> "Iter", k |-> stop, v |-> NoValue]
\* Cas(key, from, to).
Cas(k, from, to) == [name |-> "Cas", k |-> k, v |-> to, from |-> from]

InsertOps == {"Set", "Insert", "GetOrInsert", "ListAdd"}
DeleteOps == {"Del", "ListDelete"}
WriteOps == InsertOps \cup DeleteOps \cup {"Cas"}

Keys == 0..(2 * Pow2(WordBits) - 1)
\* History values: what a Get has to return, or whether a write ran undisturbed.
Unknown == "unknown"
Absent == "absent"
Clean == "clean"

InFlight(t) == pc[t] # "idle"
\* The calls on key k that are running, other than thread t's.
Running(t, k, names) ==
    {u \in Threads \ {t} : InFlight(u) /\ op[u].k = k /\ op[u].name \in names}

\* What a call of o does to an expectation x held for o's key.
Disturb(o, x) ==
    IF o.name \in InsertOps \cup {"Cas"} THEN Unknown
    ELSE IF o.name \in DeleteOps /\ x # Absent THEN Unknown
    ELSE x

\* ------------------------------------------------------------- call and return
FirstLabel(name) ==
    CASE name = "Del" -> "del_list"
      [] name = "Grow" -> "grow_flag"
      [] name = "ListAdd" -> "srch_head"
      [] name = "ListDelete" -> "ld_flag"
      [] name = "Wait" -> "wait"
      [] name = "Rest" -> "rest"
      [] name = "Iter" -> "iter_list"
      [] OTHER -> "ie_data"

FirstFn(name) == IF name \in {"Set", "Insert"} THEN "ins" ELSE name

\* The element a caller of List.Delete holds: the one it added for the key.
ElementOf(k) == CHOOSE n \in 1..nalloc : key[n] = k

\* A thread makes its next call.  Set and Insert allocate their element,
\* &ListElement{key, keyHash, value}, before insertListElement.
Call(t) ==
    /\ ~crashed
    /\ pc[t] = "idle"
    /\ prog[t] # <<>>
    /\ IF t = 0 THEN TRUE ELSE pc[0] = "wait"
    /\ LET o == Head(prog[t])
           alloc == o.name \in {"Set", "Insert", "ListAdd"}
           n == nalloc + 1
       IN  /\ alloc => nalloc < MaxNodes
           /\ prog' = [prog EXCEPT ![t] = Tail(@)]
           /\ op' = [op EXCEPT ![t] = o]
           /\ pc' = [pc EXCEPT ![t] = FirstLabel(o.name)]
           /\ loc' = [loc EXCEPT ![t] =
                  [Loc0 EXCEPT !.fn = FirstFn(o.name),
                               !.n = IF alloc THEN n ELSE NIL,
                               !.e = IF o.name = "ListDelete" THEN ElementOf(o.k) ELSE NIL]]
           /\ nalloc' = IF alloc THEN n ELSE nalloc
           /\ key' = IF alloc THEN [key EXCEPT ![n] = o.k] ELSE key
           /\ value' = IF alloc THEN [value EXCEPT ![n] = o.v] ELSE value
           /\ settled' = IF o.name \in WriteOps
                         THEN [settled EXCEPT ![o.k] = Disturb(o, @)]
                         ELSE settled
           /\ expect' = [u \in Threads |->
                 IF u = t
                 THEN IF o.name = "Get" THEN settled[o.k]
                      ELSE IF o.name \in DeleteOps
                      THEN (IF Running(t, o.k, InsertOps) = {} THEN Clean ELSE Unknown)
                      ELSE IF o.name \in WriteOps
                      THEN (IF Running(t, o.k, WriteOps) = {} THEN Clean ELSE Unknown)
                      ELSE Unknown
                 ELSE IF InFlight(u) /\ op[u].k = o.k /\ o.name \in WriteOps
                 THEN IF op[u].name = "Get" THEN Disturb(o, expect[u])
                      ELSE IF op[u].name \in DeleteOps
                      THEN (IF o.name \in InsertOps THEN Unknown ELSE expect[u])
                      ELSE IF op[u].name \in WriteOps THEN Unknown
                      ELSE expect[u]
                 ELSE expect[u]]
    /\ UNCHANGED <<hasher, nextElement, previousElement, deleted, listCount, mapVars,
                   ret, growVars, crashed, log>>

\* The thread's call returns (ok, v), the list holding len elements by its
\* count.  An undisturbed write settles its key.
Return(t, ok, v, len) ==
    /\ pc' = [pc EXCEPT ![t] = "idle"]
    /\ loc' = [loc EXCEPT ![t] = Loc0]
    /\ op' = [op EXCEPT ![t] = NoOp]
    /\ ret' = [ret EXCEPT ![t] = [name |-> op[t].name, k |-> op[t].k, ok |-> ok, v |-> v,
                                  lk |-> loc[t].lk]]
    /\ settled' =
         IF expect[t] = Clean /\ op[t].name = "Set"
         THEN [settled EXCEPT ![op[t].k] = op[t].v]
         ELSE IF expect[t] = Clean /\ op[t].name \in {"Insert", "ListAdd"} /\ ok
         THEN [settled EXCEPT ![op[t].k] = op[t].v]
         ELSE IF expect[t] = Clean /\ op[t].name \in DeleteOps
         THEN [settled EXCEPT ![op[t].k] = Absent]
         ELSE settled
    /\ log' = IF t = 0
              THEN Append(log, [name |-> op[t].name, k |-> op[t].k, ok |-> ok, v |-> v,
                                len |-> len])
              ELSE log
    /\ UNCHANGED <<prog, expect>>

Finish(t, ok, v) == Return(t, ok, v, listCount)

\* The thread goes on inside its call.
Goto(t, label, l) ==
    /\ pc' = [pc EXCEPT ![t] = label]
    /\ loc' = [loc EXCEPT ![t] = l]
    /\ UNCHANGED <<prog, op, ret, histVars>>

\* A nil pointer is dereferenced: the process panics.
Crash ==
    /\ crashed' = TRUE
    /\ UNCHANGED <<threadVars, histVars>>

\* wg.Wait() of thread 0: the other threads have made all their calls.
WaitDone(t) ==
    /\ ~crashed
    /\ pc[t] = "wait"
    /\ \A u \in Workers : prog[u] = <<>> /\ pc[u] = "idle"
    /\ Finish(t, TRUE, NoValue)
    /\ UNCHANGED <<hasher, heapVars, mapVars, growVars, crashed>>

\* The loop "if atomic.LoadUintptr(&m.resizing) == 0 { break }" is left.
RestDone(t) ==
    /\ ~crashed
    /\ pc[t] = "rest"
    /\ resizing = 0
    /\ Finish(t, TRUE, NoValue)
    /\ UNCHANGED <<hasher, heapVars, mapVars, growVars, crashed>>

\* "go m.grow(newSize, loop)", or the call of grow from allocate by thread owner.
StartGrow(newSize, loop, owner) ==
    /\ gpc' = "gr_data"
    /\ g' = [G0 EXCEPT !.newSize = newSize, !.loop = loop, !.owner = owner]

\* ------------------------------------------------------------- the loops over the list
\* One turn of the lookup loop of Get, Del and GetOrInsert on element e.
Walk(e, h, k) ==
    IF e = NIL THEN "end"
    ELSE IF keyHash(e) = h /\ key[e] = k THEN "match"
    ELSE IF keyHash(e) > h THEN "over"
    ELSE "next"

GetAt(t, e) ==
    LET w == Walk(e, Hash(op[t].k), op[t].k)
    IN  IF w = "match" THEN Goto(t, "get_value", [loc[t] EXCEPT !.e = e])
        ELSE IF w = "next" THEN Goto(t, "get_next", [loc[t] EXCEPT !.e = e])
        ELSE Finish(t, FALSE, NoValue)

DelAt(t, e) ==
    LET w == Walk(e, Hash(op[t].k), op[t].k)
    IN  IF w = "match" THEN Goto(t, "de_data", [loc[t] EXCEPT !.e = e])
        ELSE IF w = "next" THEN Goto(t, "del_next", [loc[t] EXCEPT !.e = e])
        ELSE Finish(t, FALSE, NoValue)

GetOrInsertAt(t, e) ==
    LET w == Walk(e, Hash(op[t].k), op[t].k)
    IN  IF w = "match" THEN Goto(t, "goi_value", [loc[t] EXCEPT !.e = e])
        ELSE IF w = "next" THEN Goto(t, "goi_next", [loc[t] EXCEPT !.e = e])
        ELSE Goto(t, "goi_alloc", [loc[t] EXCEPT !.e = NIL])

\* insertListElement starts over ("continue"): it keeps only its element.
Retry(t) ==
    IF loc[t].fn = "ListAdd"
    THEN Goto(t, "srch_head", [Loc0 EXCEPT !.fn = "ListAdd", !.n = loc[t].n, !.lk = loc[t].lk])
    ELSE Goto(t, "ie_data", [Loc0 EXCEPT !.fn = "ins", !.n = loc[t].n, !.lk = loc[t].lk])

\* insertListElement returns true.
InsertedTrue(t) ==
    IF op[t].name = "GetOrInsert" THEN Finish(t, FALSE, op[t].v) ELSE Finish(t, TRUE, op[t].v)

\* List.search has found the element with the item's hash and key.  A caller
\* of List.Add that wants its element inserted calls it again.
SearchFound(t, found) ==
    CASE op[t].name = "Set" -> Goto(t, "upd_value", [loc[t] EXCEPT !.e = found])
      [] op[t].name = "ListAdd" -> Retry(t)
      [] op[t].name = "Insert" -> Finish(t, FALSE, NoValue)
      [] op[t].name = "GetOrInsert" ->
            Goto(t, "ie_data", [Loc0 EXCEPT !.fn = "GetOrInsert", !.n = loc[t].n,
                                            !.lk = loc[t].lk])

\* List.search has found no such element: insertAt(element, left, right), which
\* takes the head for a nil left.
SearchInsert(t, left, right) ==
    Goto(t, "iat_sprev", [loc[t] EXCEPT !.left = IF left = NIL THEN ListHead ELSE left,
                                        !.right = right, !.e = NIL])

\* A search that takes no notice of the order: it walks to the end of the list
\* unless it meets the key.
SearchAtToEnd(t, left, found) ==
    LET n == loc[t].n
    IN  IF keyHash(n) = keyHash(found) /\ key[n] = key[found] THEN SearchFound(t, found)
        ELSE Goto(t, "srch_next", [loc[t] EXCEPT !.left = found, !.e = NIL])

\* The loop body of a List.search that takes equal hashes for equal keys.
SearchAtByHash(t, left, found) ==
    LET n == loc[t].n
    IN  IF keyHash(n) = keyHash(found) THEN SearchFound(t, found)
        ELSE IF keyHash(n) < keyHash(found)
        THEN SearchInsert(t, IF left = ListHead THEN NIL ELSE left, found)
        ELSE Goto(t, "srch_next", [loc[t] EXCEPT !.left = found, !.e = NIL])

\* The body of the loop of List.search on a found that is not nil.
SearchAt(t, left, found) ==
    LET n == loc[t].n
    IN  IF keyHash(n) = keyHash(found) /\ key[n] = key[found] THEN SearchFound(t, found)
        ELSE IF keyHash(n) < keyHash(found)
        THEN SearchInsert(t, IF left = ListHead THEN NIL ELSE left, found)
        ELSE Goto(t, "srch_next", [loc[t] EXCEPT !.left = found, !.e = NIL])

\* ------------------------------------------------------------- indexElement
\* A lookup that allocates the store it misses, as the inserts do.
IndexElementDataAllocating(t) ==
    /\ ~crashed
    /\ pc[t] = "ie_data"
    /\ IF datamap # 0 THEN Goto(t, "ie_slot", [loc[t] EXCEPT !.data = datamap])
       ELSE IF loc[t].fn \in {"ins", "GetOrInsert", "Get"} THEN Goto(t, "al_list", loc[t])
       ELSE Finish(t, FALSE, NoValue)
    /\ UNCHANGED <<hasher, heapVars, mapVars, growVars, crashed>>

\* HashMap.indexElement: data = m.mapData().
IndexElementData(t) ==
    /\ ~crashed
    /\ pc[t] = "ie_data"
    /\ IF datamap # 0 THEN Goto(t, "ie_slot", [loc[t] EXCEPT !.data = datamap])
       ELSE IF loc[t].fn \in {"ins", "GetOrInsert"} THEN Goto(t, "al_list", loc[t])
       ELSE Finish(t, FALSE, NoValue)
    /\ UNCHANGED <<hasher, heapVars, mapVars, growVars, crashed>>

\* HashMap.indexElement: item = the slot of the hash in data.
IndexElementSlot(t) ==
    /\ ~crashed
    /\ pc[t] = "ie_slot"
    /\ LET d == loc[t].data
           h == IF loc[t].fn = "ins" THEN keyHash(loc[t].n) ELSE Hash(op[t].k)
           item == stores[d].index[SlotOf(d, h)]
       IN  CASE loc[t].fn = "Get" -> GetAt(t, item)
             [] loc[t].fn = "Del" -> DelAt(t, item)
             [] loc[t].fn = "GetOrInsert" -> GetOrInsertAt(t, item)
             [] loc[t].fn = "ins" -> Goto(t, "ins_list", [loc[t] EXCEPT !.e = item])
             [] loc[t].fn = "Cas" -> Goto(t, "cas_list", [loc[t] EXCEPT !.e = item])
    /\ UNCHANGED <<hasher, heapVars, mapVars, growVars, crashed>>

\* ------------------------------------------------------------- Get
\* Get: return element.Value(), true.
GetValue(t) ==
    /\ ~crashed
    /\ pc[t] = "get_value"
    /\ Finish(t, TRUE, value[loc[t].e])
    /\ UNCHANGED <<hasher, heapVars, mapVars, growVars, crashed>>

\* Get: element = element.Next().
GetNext(t) ==
    /\ ~crashed
    /\ pc[t] = "get_next"
    /\ GetAt(t, nextElement[loc[t].e])
    /\ UNCHANGED <<hasher, heapVars, mapVars, growVars, crashed>>

\* ------------------------------------------------------------- allocate
\* allocate: CompareAndSwapPointer(&m.linkedlist, nil, NewList()).
AllocateList(t) ==
    /\ ~crashed
    /\ pc[t] = "al_list"
    /\ IF linkedlist = 0
       THEN /\ linkedlist' = 1
            /\ Goto(t, "al_flag", loc[t])
       ELSE /\ linkedlist' = linkedlist
            /\ Goto(t, "ie_data", loc[t])
    /\ UNCHANGED <<hasher, heapVars, stores, datamap, resizing, growVars, crashed>>

\* allocate: CompareAndSwapUintptr(&m.resizing, 0, 1) and m.grow(newSize, false),
\* for which the thread waits.
AllocateFlag(t) ==
    /\ ~crashed
    /\ pc[t] = "al_flag"
    /\ IF resizing = 0
       THEN /\ resizing' = 1
            /\ StartGrow(DefaultSize, FALSE, t)
            /\ Goto(t, "al_wait", loc[t])
       ELSE /\ UNCHANGED <<resizing, growVars>>
            /\ Goto(t, "ie_data", loc[t])
    /\ UNCHANGED <<hasher, heapVars, linkedlist, stores, datamap, crashed>>

\* ------------------------------------------------------------- insertListElement
\* insertListElement: list = m.list(), and the start of List.search.
InsertList(t) ==
    /\ ~crashed
    /\ pc[t] = "ins_list"
    /\ IF linkedlist = 0 THEN Crash
       ELSE /\ crashed' = crashed
            /\ LET n == loc[t].n
                   start == IF loc[t].e # NIL /\ keyHash(n) < keyHash(loc[t].e)
                            THEN NIL ELSE loc[t].e
               IN  IF start = NIL THEN Goto(t, "srch_head", [loc[t] EXCEPT !.e = NIL])
                   ELSE SearchAt(t, NIL, start)
    /\ UNCHANGED <<hasher, heapVars, mapVars, growVars>>

\* List.search from the head: found = l.head.Next().
SearchHead(t) ==
    /\ ~crashed
    /\ pc[t] = "srch_head"
    /\ LET found == nextElement[ListHead]
       IN  IF found = NIL THEN SearchInsert(t, NIL, NIL)
           ELSE SearchAt(t, ListHead, found)
    /\ UNCHANGED <<hasher, heapVars, mapVars, growVars, crashed>>

\* List.search: found = left.Next().
SearchNext(t) ==
    /\ ~crashed
    /\ pc[t] = "srch_next"
    /\ LET found == nextElement[loc[t].left]
       IN  IF found = NIL THEN SearchInsert(t, loc[t].left, NIL)
           ELSE SearchAt(t, loc[t].left, found)
    /\ UNCHANGED <<hasher, heapVars, mapVars, growVars, crashed>>

\* List.AddOrUpdate: found.setValue(element.value.Load()).
UpdateValue(t) ==
    /\ ~crashed
    /\ pc[t] = "upd_value"
    /\ value' = [value EXCEPT ![loc[t].e] = value[loc[t].n]]
    /\ Goto(t, "aii_load", [loc[t] EXCEPT !.e = NIL])
    /\ UNCHANGED <<hasher, key, nextElement, previousElement, deleted, nalloc, listCount,
                   mapVars, growVars, crashed>>

\* List.insertAt: element.previousElement.Store(left).
InsertAtStorePrevious(t) ==
    /\ ~crashed
    /\ pc[t] = "iat_sprev"
    /\ previousElement' = [previousElement EXCEPT ![loc[t].n] = loc[t].left]
    /\ Goto(t, "iat_snext", loc[t])
    /\ UNCHANGED <<hasher, key, value, nextElement, deleted, nalloc, listCount,
                   mapVars, growVars, crashed>>

\* List.insertAt: element.nextElement.Store(right).
InsertAtStoreNext(t) ==
    /\ ~crashed
    /\ pc[t] = "iat_snext"
    /\ nextElement' = [nextElement EXCEPT ![loc[t].n] = loc[t].right]
    /\ Goto(t, "iat_next", loc[t])
    /\ UNCHANGED <<hasher, key, value, previousElement, deleted, nalloc, listCount,
                   mapVars, growVars, crashed>>

\* List.insertAt: left.nextElement.CompareAndSwap(right, element).
InsertAtCasNext(t) ==
    /\ ~crashed
    /\ pc[t] = "iat_next"
    /\ IF nextElement[loc[t].left] = loc[t].right
       THEN /\ nextElement' = [nextElement EXCEPT ![loc[t].left] = loc[t].n]
            /\ Goto(t, IF loc[t].right # NIL THEN "iat_prev" ELSE "iat_count",
                    [loc[t] EXCEPT !.lk = TRUE])
       ELSE /\ nextElement' = nextElement
            /\ Retry(t)
    /\ UNCHANGED <<hasher, key, value, previousElement, deleted, nalloc, listCount,
                   mapVars, growVars, crashed>>

\* List.insertAt: right.previousElement.CompareAndSwap(left, element).
InsertAtCasPrevious(t) ==
    /\ ~crashed
    /\ pc[t] = "iat_prev"
    /\ IF previousElement[loc[t].right] = loc[t].left
       THEN /\ previousElement' = [previousElement EXCEPT ![loc[t].right] = loc[t].n]
            /\ Goto(t, "iat_count", loc[t])
       ELSE /\ previousElement' = previousElement
            /\ Retry(t)
    /\ UNCHANGED <<hasher, key, value, nextElement, deleted, nalloc, listCount,
                   mapVars, growVars, crashed>>

\* List.insertAt: l.count.Add(1).
InsertAtCount(t) ==
    /\ ~crashed
    /\ pc[t] = "iat_count"
    /\ listCount' = listCount + 1
    /\ IF loc[t].fn = "ListAdd" THEN Return(t, TRUE, op[t].v, listCount + 1)
       ELSE Goto(t, "aii_load", [loc[t] EXCEPT !.left = NIL, !.right = NIL])
    /\ UNCHANGED <<hasher, key, value, nextElement, previousElement, deleted, nalloc,
                   mapVars, growVars, crashed>>

\* ------------------------------------------------------------- addItemToIndex
\* What addItemToIndex does after loading element e from the slot of item:
\* a compare-and-swap, or return 0.
NeedsCas(item, e) == e = NIL \/ keyHash(item) < keyHash(e)

\* addItemToIndex(element) of insertListElement: the load of the slot.  With
\* the 0 it returns when it leaves the slot alone, resizeNeeded is false.
AddItemLoad(t) ==
    /\ ~crashed
    /\ pc[t] = "aii_load"
    /\ LET d == loc[t].data
           e == stores[d].index[SlotOf(d, keyHash(loc[t].n))]
       IN  IF NeedsCas(loc[t].n, e) THEN Goto(t, "aii_cas", [loc[t] EXCEPT !.e = e])
           ELSE InsertedTrue(t)
    /\ UNCHANGED <<hasher, heapVars, mapVars, growVars, crashed>>

\* addItemToIndex: CompareAndSwapPointer(ptr, element, item), element nil or not.
AddItemCas(t) ==
    /\ ~crashed
    /\ pc[t] = "aii_cas"
    /\ LET d == loc[t].data
           i == SlotOf(d, keyHash(loc[t].n))
       IN  IF stores[d].index[i] = loc[t].e
           THEN /\ stores' = [stores EXCEPT ![d].index[i] = loc[t].n]
                /\ IF loc[t].e = NIL THEN Goto(t, "aii_count", loc[t])
                   ELSE InsertedTrue(t)
           ELSE /\ stores' = stores
                /\ Goto(t, "aii_load", [loc[t] EXCEPT !.e = NIL])
    /\ UNCHANGED <<hasher, heapVars, linkedlist, datamap, resizing, growVars, crashed>>

\* addItemToIndex: return atomic.AddUintptr(&mapData.count, 1), and
\* resizeNeeded(data, count) of insertListElement.
AddItemCount(t) ==
    /\ ~crashed
    /\ pc[t] = "aii_count"
    /\ LET d == loc[t].data
           count == stores[d].count + 1
       IN  /\ stores' = [stores EXCEPT ![d].count = count]
           /\ IF resizeNeeded(d, count)
              THEN Goto(t, "ins_resize", [loc[t] EXCEPT !.cnt = count, !.e = NIL])
              ELSE InsertedTrue(t)
    /\ UNCHANGED <<hasher, heapVars, linkedlist, datamap, resizing, growVars, crashed>>

\* insertListElement: CompareAndSwapUintptr(&m.resizing, 0, 1) and go m.grow(0, true).
InsertResize(t) ==
    /\ ~crashed
    /\ pc[t] = "ins_resize"
    /\ IF resizing = 0
       THEN /\ resizing' = 1
            /\ StartGrow(0, TRUE, NoThread)
       ELSE UNCHANGED <<resizing, growVars>>
    /\ InsertedTrue(t)
    /\ UNCHANGED <<hasher, heapVars, linkedlist, stores, datamap, crashed>>

\* A Grow that starts grow without having won the resizing flag.
GrowFlagUnchecked(t) ==
    /\ ~crashed
    /\ pc[t] = "grow_flag"
    /\ resizing' = 1
    /\ StartGrow(op[t].k, TRUE, NoThread)
    /\ Finish(t, TRUE, NoValue)
    /\ UNCHANGED <<hasher, heapVars, linkedlist, stores, datamap, crashed>>

\* Grow: CompareAndSwapUintptr(&m.resizing, 0, 1) and go m.grow(newSize, true).
GrowFlag(t) ==
    /\ ~crashed
    /\ pc[t] = "grow_flag"
    /\ IF resizing = 0
       THEN /\ resizing' = 1
            /\ StartGrow(op[t].k, TRUE, NoThread)
       ELSE UNCHANGED <<resizing, growVars>>
    /\ Finish(t, TRUE, NoValue)
    /\ UNCHANGED <<hasher, heapVars, linkedlist, stores, datamap, crashed>>

\* ------------------------------------------------------------- GetOrInsert
\* GetOrInsert: return element.Value(), true.
GetOrInsertValue(t) ==
    /\ ~crashed
    /\ pc[t] = "goi_value"
    /\ Finish(t, TRUE, value[loc[t].e])
    /\ UNCHANGED <<hasher, heapVars, mapVars, growVars, crashed>>

\* GetOrInsert: element = element.Next().
GetOrInsertNext(t) ==
    /\ ~crashed
    /\ pc[t] = "goi_next"
    /\ GetOrInsertAt(t, nextElement[loc[t].e])
    /\ UNCHANGED <<hasher, heapVars, mapVars, growVars, crashed>>

\* GetOrInsert: newelement is allocated once, then insertListElement(newelement, false).
GetOrInsertAllocate(t) ==
    /\ ~crashed
    /\ pc[t] = "goi_alloc"
    /\ IF loc[t].n # NIL
       THEN /\ UNCHANGED <<nalloc, key, value>>
            /\ Goto(t, "ie_data", [loc[t] EXCEPT !.fn = "ins"])
       ELSE /\ nalloc < MaxNodes
            /\ nalloc' = nalloc + 1
            /\ key' = [key EXCEPT ![nalloc + 1] = op[t].k]
            /\ value' = [value EXCEPT ![nalloc + 1] = op[t].v]
            /\ Goto(t, "ie_data", [loc[t] EXCEPT !.fn = "ins", !.n = nalloc + 1])
    /\ UNCHANGED <<hasher, nextElement, previousElement, deleted, listCount, mapVars,
                   growVars, crashed>>

\* ------------------------------------------------------------- Del
\* Del: list = m.list(), and return if it is nil.
DelList(t) ==
    /\ ~crashed
    /\ pc[t] = "del_list"
    /\ IF linkedlist = 0 THEN Finish(t, FALSE, NoValue) ELSE Goto(t, "ie_data", loc[t])
    /\ UNCHANGED <<hasher, heapVars, mapVars, growVars, crashed>>

\* Del: element = element.Next().
DelNext(t) ==
    /\ ~crashed
    /\ pc[t] = "del_next"
    /\ DelAt(t, nextElement[loc[t].e])
    /\ UNCHANGED <<hasher, heapVars, mapVars, growVars, crashed>>

\* deleteElement: data = m.mapData().
DeleteElementData(t) ==
    /\ ~crashed
    /\ pc[t] = "de_data"
    /\ Goto(t, "de_next", [loc[t] EXCEPT !.data = datamap])
    /\ UNCHANGED <<hasher, heapVars, mapVars, growVars, crashed>>

\* deleteElement: next = element.Next().  The test that follows compares the
\* slot of element with index, which is the slot of element: next is kept.
DeleteElementNext(t) ==
    /\ ~crashed
    /\ pc[t] = "de_next"
    /\ LET d == loc[t].data
           index == SlotOf(d, keyHash(loc[t].e))
           next == nextElement[loc[t].e]
       IN  Goto(t, "de_cas",
                [loc[t] EXCEPT !.right = IF next # NIL /\ SlotOf(d, keyHash(loc[t].e)) # index
                                         THEN NIL ELSE next])
    /\ UNCHANGED <<hasher, heapVars, mapVars, growVars, crashed>>

\* deleteElement: CompareAndSwapPointer(ptr, element, next), its result unused.
DeleteElementCas(t) ==
    /\ ~crashed
    /\ pc[t] = "de_cas"
    /\ LET d == loc[t].data
           index == SlotOf(d, keyHash(loc[t].e))
       IN  stores' = IF stores[d].index[index] = loc[t].e
                     THEN [stores EXCEPT ![d].index[index] = loc[t].right]
                     ELSE stores
    /\ Goto(t, "de_check", [loc[t] EXCEPT !.right = NIL])
    /\ UNCHANGED <<hasher, heapVars, linkedlist, datamap, resizing, growVars, crashed>>

\* deleteElement: currentdata = m.mapData(), and the loop again after a resize.
DeleteElementCheck(t) ==
    /\ ~crashed
    /\ pc[t] = "de_check"
    /\ IF loc[t].data = datamap THEN Goto(t, "ld_flag", [loc[t] EXCEPT !.data = 0])
       ELSE Goto(t, "de_data", loc[t])
    /\ UNCHANGED <<hasher, heapVars, mapVars, growVars, crashed>>

\* ------------------------------------------------------------- List.Delete
\* A List.Delete that stores the deleted flag and goes on whatever it was.
ListDeleteStoreFlag(t) ==
    /\ ~crashed
    /\ pc[t] = "ld_flag"
    /\ deleted' = [deleted EXCEPT ![loc[t].e] = 1]
    /\ Goto(t, "ld_prev", loc[t])
    /\ UNCHANGED <<hasher, key, value, nextElement, previousElement, nalloc, listCount,
                   mapVars, growVars, crashed>>

\* List.Delete: element.deleted.CompareAndSwap(0, 1), and return if it fails.
ListDeleteFlag(t) ==
    /\ ~crashed
    /\ pc[t] = "ld_flag"
    /\ IF deleted[loc[t].e] = 0
       THEN /\ deleted' = [deleted EXCEPT ![loc[t].e] = 1]
            /\ Goto(t, "ld_prev", loc[t])
       ELSE /\ deleted' = deleted
            /\ Finish(t, TRUE, NoValue)
    /\ UNCHANGED <<hasher, key, value, nextElement, previousElement, nalloc, listCount,
                   mapVars, growVars, crashed>>

\* List.Delete: left = element.Previous().
ListDeletePrevious(t) ==
    /\ ~crashed
    /\ pc[t] = "ld_prev"
    /\ Goto(t, "ld_next", [loc[t] EXCEPT !.left = previousElement[loc[t].e]])
    /\ UNCHANGED <<hasher, heapVars, mapVars, growVars, crashed>>

\* List.Delete: right = element.Next().
ListDeleteNext(t) ==
    /\ ~crashed
    /\ pc[t] = "ld_next"
    /\ Goto(t, "ld_cas", [loc[t] EXCEPT !.right = nextElement[loc[t].e]])
    /\ UNCHANGED <<hasher, heapVars, mapVars, growVars, crashed>>

\* List.Delete: CompareAndSwap(element, right) on l.head.nextElement when left is
\* nil, else on left.nextElement; the loop again when it fails.
ListDeleteCas(t) ==
    /\ ~crashed
    /\ pc[t] = "ld_cas"
    /\ LET left == IF loc[t].left = NIL THEN ListHead ELSE loc[t].left
       IN  IF nextElement[left] = loc[t].e
           THEN /\ nextElement' = [nextElement EXCEPT ![left] = loc[t].right]
                /\ Goto(t, IF loc[t].right # NIL THEN "ld_fix" ELSE "ld_count",
                        [loc[t] EXCEPT !.lk = TRUE])
           ELSE /\ nextElement' = nextElement
                /\ Goto(t, "ld_prev", [loc[t] EXCEPT !.left = NIL, !.right = NIL])
    /\ UNCHANGED <<hasher, key, value, previousElement, deleted, nalloc, listCount,
                   mapVars, growVars, crashed>>

\* List.Delete: right.previousElement.CompareAndSwap(element, left).
ListDeleteFix(t) ==
    /\ ~crashed
    /\ pc[t] = "ld_fix"
    /\ previousElement' = IF previousElement[loc[t].right] = loc[t].e
                          THEN [previousElement EXCEPT ![loc[t].right] = loc[t].left]
                          ELSE previousElement
    /\ Goto(t, "ld_count", loc[t])
    /\ UNCHANGED <<hasher, key, value, nextElement, deleted, nalloc, listCount,
                   mapVars, growVars, crashed>>

\* List.Delete: l.count.Add(^uintptr(0)).
ListDeleteCount(t) ==
    /\ ~crashed
    /\ pc[t] = "ld_count"
    /\ listCount' = listCount - 1
    /\ Return(t, TRUE, NoValue, listCount - 1)
    /\ UNCHANGED <<hasher, key, value, nextElement, previousElement, deleted, nalloc,
                   mapVars, growVars, crashed>>

\* ------------------------------------------------------------- Cas
\* Cas hashes the key and calls CasHashedKey, which builds the element
\* {key: hashedKey, keyHash: hashedKey, value: to}: List.Cas gets the hash and
\* the values, and searches by the hash.
\* The body of the loop of the search of List.Cas on a found that is not nil.
CasSearchAt(t, found) ==
    LET h == Hash(op[t].k)
    IN  IF h = keyHash(found) THEN Goto(t, "cas_value", [loc[t] EXCEPT !.e = found])
        ELSE IF h < keyHash(found) THEN Finish(t, FALSE, op[t].v)
        ELSE Goto(t, "cas_next", [loc[t] EXCEPT !.left = found, !.e = NIL])

\* CasHashedKey: list = m.list(), return false if it is nil, and the start of
\* the search of List.Cas.
CasList(t) ==
    /\ ~crashed
    /\ pc[t] = "cas_list"
    /\ IF linkedlist = 0 THEN Finish(t, FALSE, op[t].v)
       ELSE LET start == IF loc[t].e # NIL /\ Hash(op[t].k) < keyHash(loc[t].e)
                         THEN NIL ELSE loc[t].e
            IN  IF start = NIL THEN Goto(t, "cas_head", [loc[t] EXCEPT !.e = NIL])
                ELSE CasSearchAt(t, start)
    /\ UNCHANGED <<hasher, heapVars, mapVars, growVars, crashed>>

\* The search of List.Cas from the head: found = l.head.Next().
CasSearchHead(t) ==
    /\ ~crashed
    /\ pc[t] = "cas_head"
    /\ LET found == nextElement[ListHead]
       IN  IF found = NIL THEN Finish(t, FALSE, op[t].v) ELSE CasSearchAt(t, found)
    /\ UNCHANGED <<hasher, heapVars, mapVars, growVars, crashed>>

\* The search of List.Cas: found = left.Next().
CasSearchNext(t) ==
    /\ ~crashed
    /\ pc[t] = "cas_next"
    /\ LET found == nextElement[loc[t].left]
       IN  IF found = NIL THEN Finish(t, FALSE, op[t].v) ELSE CasSearchAt(t, found)
    /\ UNCHANGED <<hasher, heapVars, mapVars, growVars, crashed>>

\* List.Cas: found.casValue(oldValue, element.value), a compare-and-swap of
\* the value; return false when it fails.
CasValue(t) ==
    /\ ~crashed
    /\ pc[t] = "cas_value"
    /\ IF value[loc[t].e] = op[t].from
       THEN /\ value' = [value EXCEPT ![loc[t].e] = op[t].v]
            /\ Goto(t, "cas_count", [loc[t] EXCEPT !.lk = TRUE])
       ELSE /\ value' = value
            /\ Finish(t, FALSE, op[t].v)
    /\ UNCHANGED <<hasher, key, nextElement, previousElement, deleted, nalloc, listCount,
                   mapVars, growVars, crashed>>

\* List.Cas after a swap: atomic.AddUintptr(&l.count, 1), return true.
CasCount(t) ==
    /\ ~crashed
    /\ pc[t] = "cas_count"
    /\ listCount' = listCount + 1
    /\ Return(t, TRUE, op[t].v, listCount + 1)
    /\ UNCHANGED <<hasher, key, value, nextElement, previousElement, deleted, nalloc,
                   mapVars, growVars, crashed>>

\* ------------------------------------------------------------- Iter
\* The goroutine of Iter and the loop that receives from its channel, which
\* has no buffer: the send of an item is its receipt, and seen is what the
\* loop has received.
\* The body of the receiving loop says stop (break, or the callback of Range
\* returning false) once it has received the number of items of the call.
CallbackStops(t, seen) == op[t].k # 0 /\ Len(seen) >= op[t].k

\* Iter: list = m.list(); close(ch) and return if it is nil.
IterList(t) ==
    /\ ~crashed
    /\ pc[t] = "iter_list"
    /\ IF linkedlist = 0 THEN Finish(t, TRUE, <<>>) ELSE Goto(t, "iter_first", loc[t])
    /\ UNCHANGED <<hasher, heapVars, mapVars, growVars, crashed>>

\* Iter: item = list.First(), and close(ch) when it is nil.
IterFirst(t) ==
    /\ ~crashed
    /\ pc[t] = "iter_first"
    /\ LET item == nextElement[ListHead]
       IN  IF item = NIL THEN Finish(t, TRUE, loc[t].seen)
           ELSE Goto(t, "iter_value", [loc[t] EXCEPT !.e = item])
    /\ UNCHANGED <<hasher, heapVars, mapVars, growVars, crashed>>

\* Iter: value = item.Value(); ch <- KeyValue{item.key, value}.
IterValue(t) ==
    /\ ~crashed
    /\ pc[t] = "iter_value"
    /\ LET seen == Append(loc[t].seen, [k |-> key[loc[t].e], v |-> value[loc[t].e]])
       IN  IF CallbackStops(t, seen) THEN Finish(t, FALSE, seen)
           ELSE Goto(t, "iter_next", [loc[t] EXCEPT !.seen = seen])
    /\ UNCHANGED <<hasher, heapVars, mapVars, growVars, crashed>>

\* Iter: item = item.Next(), and close(ch) when it is nil.
IterNext(t) ==
    /\ ~crashed
    /\ pc[t] = "iter_next"
    /\ LET item == nextElement[loc[t].e]
       IN  IF item = NIL THEN Finish(t, TRUE, loc[t].seen)
           ELSE Goto(t, "iter_value", [loc[t] EXCEPT !.e = item])
    /\ UNCHANGED <<hasher, heapVars, mapVars, growVars, crashed>>

\* ------------------------------------------------------------- grow
GrowGoto(label, gl) ==
    /\ gpc' = label
    /\ g' = gl

\* fillIndexItems has reached the end of the list (or found no list).
FillEnd(gl) ==
    IF gl.pass = 1 THEN GrowGoto("gr_store", [gl EXCEPT !.item = NIL, !.first = NIL, !.e = NIL])
    ELSE IF gl.loop THEN GrowGoto("gr_list", [gl EXCEPT !.item = NIL, !.first = NIL, !.e = NIL])
    ELSE GrowGoto("gr_release", [gl EXCEPT !.item = NIL, !.first = NIL, !.e = NIL])

\* A loop body of fillIndexItems that adds an item only when the index differs
\* from lastIndex, which starts as 0.
FillAtChange(gl, item) ==
    IF item = NIL THEN FillEnd(gl)
    ELSE IF SlotOf(gl.nd, keyHash(item)) # gl.lastIndex
    THEN GrowGoto("ga_load", [gl EXCEPT !.item = item])
    ELSE GrowGoto("fi_next", [gl EXCEPT !.item = item])

\* The body of the loop of fillIndexItems on item.
FillAt(gl, item) ==
    IF item = NIL THEN FillEnd(gl)
    ELSE IF item = gl.first \/ SlotOf(gl.nd, keyHash(item)) # gl.lastIndex
    THEN GrowGoto("ga_load", [gl EXCEPT !.item = item])
    ELSE GrowGoto("fi_next", [gl EXCEPT !.item = item])

\* addItemToIndex has returned to fillIndexItems: lastIndex = index.
FillAdded(gl) ==
    GrowGoto("fi_next", [gl EXCEPT !.lastIndex = SlotOf(gl.nd, keyHash(gl.item)), !.e = NIL])

\* grow: data = m.mapData(), the new size, and the new hashMapData.  A newSize
\* of 0 reads len(data.index), a nil dereference when there is no data yet.
GrowData ==
    /\ ~crashed
    /\ gpc = "gr_data"
    /\ IF g.newSize = 0 /\ datamap = 0
       THEN /\ crashed' = TRUE
            /\ UNCHANGED <<stores, growVars>>
       ELSE LET newSize == IF g.newSize = 0 THEN stores[datamap].size * 2
                           ELSE roundUpPower2(g.newSize)
            IN  /\ newSize <= Pow2(WordBits)
                /\ crashed' = crashed
                /\ stores' = Append(stores, NewStore(newSize))
                /\ GrowGoto("fi_list", [g EXCEPT !.newSize = newSize, !.nd = Len(stores) + 1,
                                                 !.pass = 1])
    /\ UNCHANGED <<hasher, heapVars, linkedlist, datamap, resizing, threadVars,
                   histVars>>

\* fillIndexItems: list = m.list(), and return if it is nil.
FillList ==
    /\ ~crashed
    /\ gpc = "fi_list"
    /\ IF linkedlist = 0 THEN FillEnd(g) ELSE GrowGoto("fi_first", g)
    /\ UNCHANGED <<hasher, heapVars, mapVars, threadVars, crashed, histVars>>

\* fillIndexItems: first = list.First().
FillFirst ==
    /\ ~crashed
    /\ gpc = "fi_first"
    /\ FillAt([g EXCEPT !.first = nextElement[ListHead], !.lastIndex = 0],
              nextElement[ListHead])
    /\ UNCHANGED <<hasher, heapVars, mapVars, threadVars, crashed, histVars>>

\* fillIndexItems: item = item.Next().
FillNext ==
    /\ ~crashed
    /\ gpc = "fi_next"
    /\ FillAt(g, nextElement[g.item])
    /\ UNCHANGED <<hasher, heapVars, mapVars, threadVars, crashed, histVars>>

\* addItemToIndex(item) of fillIndexItems: the load of the slot.
GrowAddItemLoad ==
    /\ ~crashed
    /\ gpc = "ga_load"
    /\ LET e == stores[g.nd].index[SlotOf(g.nd, keyHash(g.item))]
       IN  IF NeedsCas(g.item, e) THEN GrowGoto("ga_cas", [g EXCEPT !.e = e])
           ELSE FillAdded(g)
    /\ UNCHANGED <<hasher, heapVars, mapVars, threadVars, crashed, histVars>>

\* addItemToIndex of fillIndexItems: CompareAndSwapPointer(ptr, element, item).
GrowAddItemCas ==
    /\ ~crashed
    /\ gpc = "ga_cas"
    /\ LET i == SlotOf(g.nd, keyHash(g.item))
       IN  IF stores[g.nd].index[i] = g.e
           THEN /\ stores' = [stores EXCEPT ![g.nd].index[i] = g.item]
                /\ IF g.e = NIL THEN GrowGoto("ga_count", g) ELSE FillAdded(g)
           ELSE /\ stores' = stores
                /\ GrowGoto("ga_load", [g EXCEPT !.e = NIL])
    /\ UNCHANGED <<hasher, heapVars, linkedlist, datamap, resizing, threadVars, crashed,
                   histVars>>

\* addItemToIndex of fillIndexItems: atomic.AddUintptr(&mapData.count, 1).
GrowAddItemCount ==
    /\ ~crashed
    /\ gpc = "ga_count"
    /\ stores' = [stores EXCEPT ![g.nd].count = @ + 1]
    /\ FillAdded(g)
    /\ UNCHANGED <<hasher, heapVars, linkedlist, datamap, resizing, threadVars, crashed,
                   histVars>>

\* grow: atomic.StorePointer(&m.datamap, newdata), then the second fillIndexItems.
GrowStore ==
    /\ ~crashed
    /\ gpc = "gr_store"
    /\ datamap' = g.nd
    /\ GrowGoto("fi_list", [g EXCEPT !.pass = 2])
    /\ UNCHANGED <<hasher, heapVars, linkedlist, stores, resizing, threadVars, crashed,
                   histVars>>

\* grow: m.Len() is list.Len() of the list loaded.  On a nil list the Len of
\* src/list.go returns 0 and the Len of src/unnamed/part_001, which has no nil
\* test, dereferences it.
GrowLenList ==
    /\ ~crashed
    /\ gpc = "gr_list"
    /\ \/ /\ linkedlist = 0
          /\ crashed' = TRUE
          /\ UNCHANGED growVars
       \/ /\ crashed' = crashed
          /\ GrowGoto("gr_len", g)
    /\ UNCHANGED <<hasher, heapVars, mapVars, threadVars, histVars>>

\* grow: count = uintptr(m.Len()), and another turn when resizeNeeded(newdata, count).
GrowLen ==
    /\ ~crashed
    /\ gpc = "gr_len"
    /\ IF resizeNeeded(g.nd, listCount)
       THEN GrowGoto("gr_data", [g EXCEPT !.newSize = 0, !.nd = 0, !.pass = 0])
       ELSE GrowGoto("gr_release", g)
    /\ UNCHANGED <<hasher, heapVars, mapVars, threadVars, crashed, histVars>>

\* grow, deferred: CompareAndSwapUintptr(&m.resizing, 1, 0).  The caller of
\* allocate goes on in insertListElement.
GrowRelease ==
    /\ ~crashed
    /\ gpc = "gr_release"
    /\ resizing' = 0
    /\ GrowGoto("idle", G0)
    /\ pc' = IF g.owner = NoThread THEN pc ELSE [pc EXCEPT ![g.owner] = "ie_data"]
    /\ UNCHANGED <<hasher, heapVars, linkedlist, stores, datamap, prog, op, loc, ret,
                   crashed, histVars>>

\* ------------------------------------------------------------- the runs
\* The map after New(size): allocate(size) has installed the list and grow(size,
\* false) an empty store; size 0 stands for a HashMap{} that has neither yet.
InitMap(size) ==
    /\ linkedlist = IF size = 0 THEN 0 ELSE 1
    /\ stores = IF size = 0 THEN <<>> ELSE <<NewStore(roundUpPower2(size))>>
    /\ datamap = IF size = 0 THEN 0 ELSE 1
    /\ resizing = 0

\* NewList(): a list by itself, its head without a next.
InitList ==
    /\ linkedlist = 1
    /\ stores = <<>>
    /\ datamap = 0
    /\ resizing = 0

\* A run: the size given to New, the hasher, and the calls of each thread.
InitHeap(hf, p) ==
    /\ hasher = hf
    /\ key = [n \in Nodes |-> 0]
    /\ value = [n \in Nodes |-> NoValue]
    /\ nextElement = [n \in {ListHead} \cup Nodes |-> NIL]
    /\ previousElement = [n \in {ListHead} \cup Nodes |-> NIL]
    /\ deleted = [n \in Nodes |-> 0]
    /\ nalloc = 0
    /\ listCount = 0
    /\ prog = p
    /\ op = [t \in Threads |-> NoOp]
    /\ pc = [t \in Threads |-> "idle"]
    /\ loc = [t \in Threads |-> Loc0]
    /\ ret = [t \in Threads |-> NoRet]
    /\ gpc = "idle"
    /\ g = G0
    /\ crashed = FALSE
    /\ settled = [k \in Keys |-> Unknown]
    /\ expect = [t \in Threads |-> Unknown]
    /\ log = <<>>

Step(t) ==
    \/ Call(t)
    \/ WaitDone(t)
    \/ IndexElementData(t)
    \/ IndexElementSlot(t)
    \/ GetValue(t)
    \/ GetNext(t)
    \/ AllocateList(t)
    \/ AllocateFlag(t)
    \/ InsertList(t)
    \/ SearchHead(t)
    \/ SearchNext(t)
    \/ UpdateValue(t)
    \/ InsertAtStorePrevious(t)
    \/ InsertAtStoreNext(t)
    \/ InsertAtCasNext(t)
    \/ InsertAtCasPrevious(t)
    \/ InsertAtCount(t)
    \/ AddItemLoad(t)
    \/ AddItemCas(t)
    \/ AddItemCount(t)
    \/ InsertResize(t)
    \/ GrowFlag(t)
    \/ GetOrInsertValue(t)
    \/ GetOrInsertNext(t)
    \/ GetOrInsertAllocate(t)
    \/ DelList(t)
    \/ DelNext(t)
    \/ DeleteElementData(t)
    \/ DeleteElementNext(t)
    \/ DeleteElementCas(t)
    \/ DeleteElementCheck(t)
    \/ ListDeleteFlag(t)
    \/ ListDeletePrevious(t)
    \/ ListDeleteNext(t)
    \/ ListDeleteCas(t)
    \/ ListDeleteFix(t)
    \/ ListDeleteCount(t)

GrowStep ==
    \/ GrowData
    \/ FillList
    \/ FillFirst
    \/ FillNext
    \/ GrowAddItemLoad
    \/ GrowAddItemCas
    \/ GrowAddItemCount
    \/ GrowStore
    \/ GrowLenList
    \/ GrowLen
    \/ GrowRelease

Next == (\E t \in Threads : Step(t)) \/ GrowStep

\* ------------------------------------------------------------- what a state holds
\* The elements a walk over Next() from the head of the list reaches.
RECURSIVE ReachFrom(_, _)
ReachFrom(e, fuel) ==
    IF e = NIL \/ fuel = 0 THEN {} ELSE {e} \cup ReachFrom(nextElement[e], fuel - 1)
Reachable == ReachFrom(nextElement[ListHead], MaxNodes)

\* The entries of the map: linked into the list and not marked deleted.
Live == {e \in Reachable : deleted[e] = 0}
LiveOf(k) == {e \in Live : key[e] = k}

\* No call is in flight and no grow is running.
Quiet ==
    /\ ~crashed
    /\ gpc = "idle"
    /\ \A t \in Threads : pc[t] \in {"idle", "wait"}

\* Thread t is back from a call of the given name.
Returned(t, name) == pc[t] = "idle" /\ ret[t].name = name

\* ------------------------------------------------------------- the runs of the map
\* A run: thread 0 constructs, makes the calls of pre, waits for the other
\* threads, which make the calls of work, and makes the calls of post.
Run(hf, pre, work, post) ==
    InitHeap(hf, [t \in Threads |-> IF t = 0 THEN pre \o <<Wait>> \o post ELSE work[t]])

\* Concurrent calls on a small map: New(2) with three entries in one slot, and
\* the zero HashMap{}.  Every other thread makes one call: on key 5, which has
\* the hash of the middle entry, on the middle or the last entry, or Grow.
\* Thread 0 then reads every key back, sets the middle key twice, and sets a
\* key of the second slot, which fills the index of New(2) past MaxFillRate.
ValueOf(t) == IF t % 2 = 1 THEN "a" ELSE "b"
WorkerCalls(t) ==
    {<<Set(5, ValueOf(t))>>, <<Insert(5, ValueOf(t))>>, <<GetOrInsert(5, ValueOf(t))>>,
     <<Del(4)>>, <<Del(6)>>, <<Get(5)>>, <<Grow(0)>>}
Works == {w \in [Workers -> UNION {WorkerCalls(t) : t \in Workers}] :
             \A t \in Workers : w[t] \in WorkerCalls(t)}
ReadBack ==
    <<Get(2), Get(4), Get(5), Get(6), Set(4, "a"), Set(4, "b"), Get(4), Set(8, "a"), Get(8)>>

Init ==
    \E w \in Works :
        \/ InitMap(2) /\ Run("default", <<Set(2, "a"), Set(4, "a"), Set(6, "a")>>, w, ReadBack)
        \/ InitMap(0) /\ Run("default", <<>>, w, ReadBack)

Spec == Init /\ [][Next]_vars

\* ------------------------------------------------------------- claims on concurrent calls
\* Thread 0 is past its wait for the other threads; the place of the wait in its log.
AfterWait == \E i \in DOMAIN log : log[i].name = "Wait"
WaitAt == CHOOSE i \in DOMAIN log : log[i].name = "Wait"
\* The set-up of thread 0 wrote key k.
SetUpWrote(k) == \E i \in 1..(WaitAt - 1) : log[i].k = k /\ log[i].name \in WriteOps
\* Every other thread has made the one call of the given name, all on one key.
AllMade(name) ==
    /\ AfterWait
    /\ \A t \in Workers : ret[t].name = name /\ ret[t].k = ret[1].k

\* C1: once set(k,v), or an insert(k,v) that returned true, has returned and no
\* later set, insert, cas or del on k has started, a get(k) that starts
\* afterwards returns (v, true), whatever else runs, a grow included.
C1_GetSeesCompletedSet ==
    \A t \in Threads :
        (Returned(t, "Get") /\ expect[t] \in Values) =>
            (ret[t].ok /\ ret[t].v = expect[t])

\* C2: once del(k) has returned and no later set, insert or get_or_insert on k
\* has started, a get(k) that starts afterwards returns not-found, whatever
\* else runs.
C2_GetMissesDeleted ==
    \A t \in Threads :
        (Returned(t, "Get") /\ expect[t] = Absent) => ~ret[t].ok

\* C4: when no call is in flight, Len() is the number of elements that are
\* reachable from the head of the list and not marked deleted.
C4_LenCountsLive == Quiet => listCount = Cardinality(Live)

\* C5: Insert returns true exactly when the call linked a new element; when
\* every other thread inserts the same absent key, exactly one Insert returns
\* true and a later Get returns the value of that call.
C5_InsertTrueIffLinked ==
    /\ \A t \in Threads : Returned(t, "Insert") => (ret[t].ok <=> ret[t].lk)
    /\ (AllMade("Insert") /\ ~SetUpWrote(ret[1].k)) =>
          /\ Cardinality({t \in Workers : ret[t].ok}) = 1
          /\ \A i \in DOMAIN log :
                (i > WaitAt /\ log[i].name = "Get" /\ log[i].k = ret[1].k
                   /\ \A j \in (WaitAt + 1)..(i - 1) : log[j].k # ret[1].k) =>
                    /\ log[i].ok
                    /\ \E t \in Workers : ret[t].ok /\ ret[t].v = log[i].v

\* C6: GetOrInsert returns loaded = true and links nothing when the key is
\* present, and else links its element and returns its own value with loaded =
\* false; when every other thread calls it on the same absent key, exactly one
\* call returns loaded = false and all calls return the value of that call.
C6_GetOrInsertSharesValue ==
    /\ \A t \in Threads :
          Returned(t, "GetOrInsert") => (ret[t].ok <=> ~ret[t].lk)
    /\ (AllMade("GetOrInsert") /\ ~SetUpWrote(ret[1].k)) =>
          /\ Cardinality({t \in Workers : ~ret[t].ok}) = 1
          /\ \A t, u \in Workers : ret[t].v = ret[u].v

\* A Get that thread 0 made right after two Sets of the same key, which it made
\* after a Get or after its wait.
SetSetGetAt(i) ==
    /\ i >= 4
    /\ log[i].name = "Get" /\ log[i - 1].name = "Set" /\ log[i - 2].name = "Set"
    /\ log[i - 1].k = log[i].k /\ log[i - 2].k = log[i].k
    /\ log[i - 3].name \in {"Get", "Wait"}
\* The entries of k that were there before the two elements of the two Sets.
LiveBefore(k) == {e \in LiveOf(k) : e <= nalloc - 2}

\* C10: after Set(k, v1); Set(k, v2) by a thread that runs alone, Get(k) returns
\* (v2, true), the map holds one entry for k, and Len() has grown by 1 if k had
\* no entry before and by 0 if it had one.
C10_SetTwiceGet ==
    LET i == Len(log)
    IN  (pc[0] = "idle" /\ i >= 4 /\ SetSetGetAt(i) /\ ~crashed) =>
            /\ log[i].ok /\ log[i].v = log[i - 1].v
            /\ Cardinality(LiveOf(log[i].k)) = 1
            /\ log[i - 1].len = log[i - 3].len + (IF LiveBefore(log[i].k) = {} THEN 1 ELSE 0)

\* ------------------------------------------------------------- the runs of the list
\* List.search(nil, item) as a walk from element e: the element with the hash
\* and the key, or nil.
RECURSIVE Find(_, _, _, _)
Find(e, h, k, fuel) ==
    IF fuel = 0 THEN NIL
    ELSE LET w == Walk(e, h, k)
         IN  IF w = "match" THEN e
             ELSE IF w = "next" THEN Find(nextElement[e], h, k, fuel - 1)
             ELSE NIL
Search(k) == Find(nextElement[ListHead], Hash(k), k, MaxNodes + 1)

\* TestConcurrentInsertDelete: a list of three elements; one goroutine deletes
\* the element of key e while every other one adds a new key whose window has
\* that element as its left or its right end, calling Add until it has inserted.
ListKeys == <<2, 6, 10>>
ListSetUp == <<ListAdd(2, "a"), ListAdd(6, "a"), ListAdd(10, "a")>>
BesideWork(e) ==
    {w \in [Workers -> {ListDelete(e), ListAdd(e - 2, "b"), ListAdd(e + 2, "b")}] :
        /\ w[1] = ListDelete(e)
        /\ \A t \in Workers \ {1} : w[t].name = "ListAdd"}

InitBeside ==
    /\ InitList
    /\ \E i \in DOMAIN ListKeys : \E w \in BesideWork(ListKeys[i]) :
          Run("default", ListSetUp, [t \in Workers |-> <<w[t]>>], <<>>)

StepList(t) ==
    \/ Call(t)
    \/ WaitDone(t)
    \/ SearchHead(t)
    \/ SearchNext(t)
    \/ InsertAtStorePrevious(t)
    \/ InsertAtStoreNext(t)
    \/ InsertAtCasNext(t)
    \/ InsertAtCasPrevious(t)
    \/ InsertAtCount(t)
    \/ ListDeleteFlag(t)
    \/ ListDeletePrevious(t)
    \/ ListDeleteNext(t)
    \/ ListDeleteCas(t)
    \/ ListDeleteFix(t)
    \/ ListDeleteCount(t)

NextList == \E t \in Threads : StepList(t)

SpecList == InitBeside /\ [][NextList]_vars

\* C3: List.Delete(e) has run beside List.Add of a new element next to e, Add
\* called until it reported inserted.  Once both are back, a search from the head
\* finds the new element, e is not reachable from the head, every other element
\* is, and Len() is the number of elements reachable from the head.
C3_DeleteBesideAdd ==
    (AfterWait /\ ret[1].name = "ListDelete") =>
        /\ \A t \in Workers : ret[t].name = "ListAdd" => Search(ret[t].k) # NIL
        /\ ElementOf(ret[1].k) \notin Reachable
        /\ \A n \in 1..nalloc : n # ElementOf(ret[1].k) => n \in Reachable
        /\ listCount = Cardinality(Reachable)

\* ------------------------------------------------------------- the runs of concurrent Del
\* New(2) filled by three Sets, which one slot of the index takes without a
\* grow; then every other thread calls Del of the same key.
DelSetUp == <<Set(2, "a"), Set(6, "a"), Set(4, "a")>>

InitDel ==
    /\ InitMap(2)
    /\ \E i \in DOMAIN DelSetUp :
          Run("default", DelSetUp, [t \in Workers |-> <<Del(DelSetUp[i].k)>>], <<>>)

StepDel(t) ==
    \/ Call(t)
    \/ WaitDone(t)
    \/ IndexElementData(t)
    \/ IndexElementSlot(t)
    \/ InsertList(t)
    \/ SearchHead(t)
    \/ SearchNext(t)
    \/ InsertAtStorePrevious(t)
    \/ InsertAtStoreNext(t)
    \/ InsertAtCasNext(t)
    \/ InsertAtCasPrevious(t)
    \/ InsertAtCount(t)
    \/ AddItemLoad(t)
    \/ AddItemCas(t)
    \/ AddItemCount(t)
    \/ DelList(t)
    \/ DelNext(t)
    \/ DeleteElementData(t)
    \/ DeleteElementNext(t)
    \/ DeleteElementCas(t)
    \/ DeleteElementCheck(t)
    \/ ListDeleteFlag(t)
    \/ ListDeletePrevious(t)
    \/ ListDeleteNext(t)
    \/ ListDeleteCas(t)
    \/ ListDeleteFix(t)
    \/ ListDeleteCount(t)

NextDel == \E t \in Threads : StepDel(t)

SpecDel == InitDel /\ [][NextDel]_vars

\* The threads that are in List.Delete past the deleted flag: in the loop that
\* unlinks the element, or at the decrement of the count.
Unlinking ==
    {t \in Threads : pc[t] \in {"ld_prev", "ld_next", "ld_cas", "ld_fix", "ld_count"}}

\* C7: of the concurrent calls Del(k) on a key that is present once, one call
\* unlinks the entry and decrements the count: no two calls are ever past the
\* deleted flag, and once all are back one call has unlinked, Len() is one less
\* than before the calls, and the list holds the other entries and not k's.
C7_OneDelRemoves ==
    /\ Cardinality(Unlinking) <= 1
    /\ AllMade("Del") =>
          /\ Cardinality({t \in Workers : ret[t].lk}) = 1
          /\ listCount = log[WaitAt - 1].len - 1
          /\ Reachable = (1..nalloc) \ {ElementOf(ret[1].k)}
          /\ deleted[ElementOf(ret[1].k)] = 1

\* Every call Del(k) has found the entry and called List.Delete with it.
C7_AllReachedDelete == AllMade("Del") /\ \A t \in Workers : ret[t].ok

\* ------------------------------------------------------------- the runs of colliding keys
\* TestHashCollision: a hasher that gives every key the hash 4.  One goroutine
\* inserts three keys, inserts one of them again, sets one of them again, reads
\* all, deletes one, reads all, and inserts the deleted key again.
CollideKeys == {<<1, 2, 3>>, <<3, 1, 2>>, <<2, 3, 1>>}
CollideCalls(ks, d) ==
    <<Insert(ks[1], "a"), Insert(ks[2], "b"), Insert(ks[1], "b"), Set(ks[3], "a"),
      Set(ks[2], "a"), Get(ks[1]), Get(ks[2]), Get(ks[3]), Del(ks[d]),
      Get(ks[1]), Get(ks[2]), Get(ks[3]), Insert(ks[d], "b"), Get(ks[d])>>

InitCollide ==
    /\ InitMap(2)
    /\ \E ks \in CollideKeys : \E d \in 1..3 :
          Run("static", CollideCalls(ks, d), [t \in Workers |-> <<>>], <<>>)

StepCollide(t) ==
    \/ Call(t)
    \/ WaitDone(t)
    \/ IndexElementData(t)
    \/ IndexElementSlot(t)
    \/ GetValue(t)
    \/ GetNext(t)
    \/ InsertList(t)
    \/ SearchHead(t)
    \/ SearchNext(t)
    \/ UpdateValue(t)
    \/ InsertAtStorePrevious(t)
    \/ InsertAtStoreNext(t)
    \/ InsertAtCasNext(t)
    \/ InsertAtCount(t)
    \/ AddItemLoad(t)
    \/ AddItemCas(t)
    \/ AddItemCount(t)
    \/ DelList(t)
    \/ DelNext(t)
    \/ DeleteElementData(t)
    \/ DeleteElementNext(t)
    \/ DeleteElementCas(t)
    \/ DeleteElementCheck(t)
    \/ ListDeleteFlag(t)
    \/ ListDeletePrevious(t)
    \/ ListDeleteNext(t)
    \/ ListDeleteCas(t)
    \/ ListDeleteFix(t)
    \/ ListDeleteCount(t)

NextCollide == \E t \in Threads : StepCollide(t)

SpecCollide == InitCollide /\ [][NextCollide]_vars

\* The value that every Cas of thread 0 expects.
CasFrom == "a"
\* What a map from keys to values holds after the first i calls of the log.
RECURSIVE Content(_)
Content(i) ==
    IF i = 0 THEN [k \in Keys |-> NoValue]
    ELSE LET m == Content(i - 1)
             c == log[i]
         IN  CASE c.name = "Set" -> [m EXCEPT ![c.k] = c.v]
               [] c.name = "Insert" -> IF m[c.k] = NoValue THEN [m EXCEPT ![c.k] = c.v] ELSE m
               [] c.name = "Del" -> [m EXCEPT ![c.k] = NoValue]
               [] c.name = "Cas" -> IF m[c.k] = CasFrom THEN [m EXCEPT ![c.k] = c.v] ELSE m
               [] OTHER -> m

GrowRun(keys, first) ==
    Run("default", <<Set(keys[1], "b"), Set(keys[2], "a")>>,
        [t \in Workers |-> IF t = 1 THEN <<first>> ELSE <<Get(keys[1]), Get(keys[2])>>],
        <<Get(keys[1]), Get(keys[2])>>)

InitGrow ==
    \/ InitMap(8) /\ \E n \in {2, 4, 8} : GrowRun(<<12, 4>>, Grow(n))
    \/ InitMap(4) /\ GrowRun(<<6, 4>>, Grow(0))
    \/ InitMap(2) /\ GrowRun(<<6, 4>>, Set(8, "a"))

StepGrow(t) ==
    \/ Call(t)
    \/ WaitDone(t)
    \/ IndexElementData(t)
    \/ IndexElementSlot(t)
    \/ GetValue(t)
    \/ GetNext(t)
    \/ InsertList(t)
    \/ SearchHead(t)
    \/ SearchNext(t)
    \/ InsertAtStorePrevious(t)
    \/ InsertAtStoreNext(t)
    \/ InsertAtCasNext(t)
    \/ InsertAtCasPrevious(t)
    \/ InsertAtCount(t)
    \/ AddItemLoad(t)
    \/ AddItemCas(t)
    \/ AddItemCount(t)
    \/ InsertResize(t)
    \/ GrowFlag(t)

NextGrow == (\E t \in Threads : StepGrow(t)) \/ GrowStep

SpecGrow == InitGrow /\ [][NextGrow]_vars

\* Fillrate() on the store d: (count * 100) / len(index).
FillrateOf(d) == (stores[d].count * 100) \div stores[d].size

\* The keys that the completed writes have stored.
Stored == {k \in Keys : settled[k] \in Values}
\* No Set is in flight.
NoWrite == \A t \in Threads : op[t].name \notin WriteOps
\* C8: with no write beside a grow, Len() stays the number of keys stored, a
\* Get of a stored key returns its value during the grow and after it, and
\* once the grow is over the fill rate is not higher than it was before, in
\* the first store, which no write touches once the grow has started.
C8_GrowKeepsEntries ==
    /\ NoWrite => listCount = Cardinality(Stored)
    /\ \A t \in Threads :
          (Returned(t, "Get") /\ expect[t] \in Values) => (ret[t].ok /\ ret[t].v = expect[t])
    /\ (NoWrite /\ gpc = "idle" /\ datamap > 1) =>
          FillrateOf(datamap) <= FillrateOf(1)

\* ------------------------------------------------------------- the runs of one goroutine
\* One goroutine calls the map and no other does; grow runs beside it when its
\* calls start it.  TestInsert on the zero HashMap{} and on New(8), with a second
\* key of the same hash, of a larger one and of a smaller one; TestDelete on
\* both; and New(2), whose index the second Set fills past MaxFillRate, with an
\* Insert or a Del made while the grow runs.
TestInsertCalls(k1, k2) ==
    <<Insert(k1, "a"), Get(k1), Insert(k1, "b"), Get(k1), Insert(k2, "b"), Get(k2), Get(k1)>>
TestDeleteCalls ==
    <<Del(1), Get(1), Set(1, "a"), Set(2, "b"), Set(2, "a"), Del(0), Del(3), Get(1), Del(1),
      Get(1), Get(2), Del(1), Get(2), Del(2), Get(2), Get(1)>>
FilledCalls ==
    {<<Set(2, "a"), Set(12, "a"), Insert(8, "a"), Get(8), Insert(8, "b"), Get(8)>>,
     <<Set(2, "a"), Set(12, "a"), Get(12), Del(12), Get(12), Get(2), Del(12), Get(12)>>}
Alone(calls) == Run("default", calls, [t \in Workers |-> <<>>], <<>>)

InitSeq ==
    \/ \E size \in {0, 8} :
          /\ InitMap(size)
          /\ \/ \E ks \in {<<2, 3>>, <<2, 4>>, <<4, 2>>} : Alone(TestInsertCalls(ks[1], ks[2]))
             \/ Alone(TestDeleteCalls)
    \/ InitMap(2) /\ \E calls \in FilledCalls : Alone(calls)

StepSeq(t) ==
    \/ Call(t)
    \/ WaitDone(t)
    \/ IndexElementData(t)
    \/ IndexElementSlot(t)
    \/ GetValue(t)
    \/ GetNext(t)
    \/ AllocateList(t)
    \/ AllocateFlag(t)
    \/ InsertList(t)
    \/ SearchHead(t)
    \/ SearchNext(t)
    \/ UpdateValue(t)
    \/ InsertAtStorePrevious(t)
    \/ InsertAtStoreNext(t)
    \/ InsertAtCasNext(t)
    \/ InsertAtCasPrevious(t)
    \/ InsertAtCount(t)
    \/ AddItemLoad(t)
    \/ AddItemCas(t)
    \/ AddItemCount(t)
    \/ InsertResize(t)
    \/ DelList(t)
    \/ DelNext(t)
    \/ DeleteElementData(t)
    \/ DeleteElementNext(t)
    \/ DeleteElementCas(t)
    \/ DeleteElementCheck(t)
    \/ ListDeleteFlag(t)
    \/ ListDeletePrevious(t)
    \/ ListDeleteNext(t)
    \/ ListDeleteCas(t)
    \/ ListDeleteFix(t)
    \/ ListDeleteCount(t)

NextSeq == (\E t \in Threads : StepSeq(t)) \/ GrowStep

SpecSeq == InitSeq /\ [][NextSeq]_vars

\* What the completed calls of the goroutine have stored for key k.
Present(k) == Content(Len(log))[k]
\* Thread 0 takes a step inside its call of the given name, or returns from it.
StepsIn(name) == pc[0] # "idle" /\ op[0].name = name /\ pc'[0] # pc[0]
ReturnsFrom(name) == StepsIn(name) /\ pc'[0] = "idle"
\* The last completed call was an Insert of k that found k stored.
AfterInsertOfPresent(k) ==
    /\ Len(log) >= 2
    /\ log[Len(log)].name = "Insert" /\ log[Len(log)].k = k
    /\ Content(Len(log) - 1)[k] # NoValue

\* C11: an Insert(k, v2) made while k is stored with v1 writes no link of the
\* list, no deleted flag, no value, no slot of an index and no count, leaves
\* Len() as it was and returns false, and the Get(k) that follows it returns
\* (v1, true).
C11_InsertPresentFrame ==
    [][/\ (StepsIn("Insert") /\ Present(op[0].k) # NoValue) =>
             /\ UNCHANGED <<value, nextElement, previousElement, deleted, listCount,
                            stores, datamap, linkedlist>>
             /\ pc'[0] = "idle" => ~ret'[0].ok
       /\ (ReturnsFrom("Get") /\ AfterInsertOfPresent(op[0].k)) =>
             (ret'[0].ok /\ ret'[0].v = Present(op[0].k))]_vars

\* The result of Del as the tests read it: true when Del found an element with
\* the key and called deleteElement and List.Delete with it.
DelResult(c) == c.ok
\* Len() as the last completed call left it.
LenBefore == IF log = <<>> THEN 0 ELSE log[Len(log)].len
\* The goroutine has completed a Del.
AfterDel == \E i \in DOMAIN log : log[i].name = "Del"

\* C12: called by one goroutine, Del(k) returns true exactly when k is stored;
\* a Del that returns true leaves Len() smaller by 1, a Del of a key that is
\* not stored writes nothing and leaves Len() as it was, and every Get after a
\* Del returns not-found for a deleted key and its value for a stored one.
C12_DelSequential ==
    [][/\ ReturnsFrom("Del") =>
             /\ DelResult(ret'[0]) <=> Present(op[0].k) # NoValue
             /\ listCount' = LenBefore - (IF DelResult(ret'[0]) THEN 1 ELSE 0)
       /\ (StepsIn("Del") /\ Present(op[0].k) = NoValue) =>
             UNCHANGED <<value, nextElement, previousElement, deleted, listCount,
                         stores, datamap, linkedlist>>
       /\ (ReturnsFrom("Get") /\ AfterDel) =>
             /\ ret'[0].ok <=> Present(op[0].k) # NoValue
             /\ ret'[0].v = Present(op[0].k)]_vars

\* ------------------------------------------------------------- the runs of Cas
\* TestCompareAndSwap: Cas on the map without the key, Set, Cas that meets the
\* expected value, Cas that does not, Get; with a Cas of a key kx that is not
\* in the map.  And the Cas of one key by every other thread at once, with the
\* same expected value and new values of their own.
CasCalls(k, kx) ==
    <<Cas(k, CasFrom, "b"), Get(k), Set(2, "a"), Set(k, "a"), Cas(kx, CasFrom, "c"), Get(kx),
      Get(k), Cas(k, CasFrom, "b"), Get(k), Cas(k, CasFrom, "c"), Get(k), Get(2)>>
CasTo(t) == IF t % 2 = 1 THEN "b" ELSE "c"

InitCas ==
    \/ \E size \in {0, 2} : \E ks \in {<<4, 5>>, <<4, 8>>, <<6, 0>>} :
          InitMap(size) /\ Alone(CasCalls(ks[1], ks[2]))
    \/ /\ InitMap(2)
       /\ Run("default", <<Set(2, "a"), Set(4, "a")>>,
              [t \in Workers |-> <<Cas(4, CasFrom, CasTo(t))>>], <<Get(4), Get(2)>>)

StepCas(t) ==
    \/ Call(t)
    \/ WaitDone(t)
    \/ IndexElementData(t)
    \/ IndexElementSlot(t)
    \/ GetValue(t)
    \/ GetNext(t)
    \/ AllocateList(t)
    \/ AllocateFlag(t)
    \/ InsertList(t)
    \/ SearchHead(t)
    \/ SearchNext(t)
    \/ InsertAtStorePrevious(t)
    \/ InsertAtStoreNext(t)
    \/ InsertAtCasNext(t)
    \/ InsertAtCount(t)
    \/ AddItemLoad(t)
    \/ AddItemCas(t)
    \/ AddItemCount(t)
    \/ CasList(t)
    \/ CasSearchHead(t)
    \/ CasSearchNext(t)
    \/ CasValue(t)
    \/ CasCount(t)

\* grow runs once, called by allocate on the empty list.
GrowStepCas ==
    \/ GrowData
    \/ FillList
    \/ FillFirst
    \/ GrowStore
    \/ GrowRelease

NextCas == (\E t \in Threads : StepCas(t)) \/ GrowStepCas

SpecCas == InitCas /\ [][NextCas]_vars

\* The run in which thread 0 makes every call.
RunsAlone == \A t \in Workers : prog[t] = <<>> /\ ret[t] = NoRet

\* C13: Cas(k, from, to) returns true exactly when k is stored with the value
\* from, and Get then returns to; a Cas that returns false changes the value of
\* no key and a Cas of a key that is not stored leaves it not stored; of the
\* calls Cas(k, from, to_t) that the other threads make at once, with to_t
\* other than from, exactly one returns true and Get(k) returns its to_t.
C13_CasSwapsOnce ==
    /\ RunsAlone =>
          \A i \in DOMAIN log :
              LET m == Content(i - 1)
                  c == log[i]
              IN  /\ c.name = "Cas" => (c.ok <=> m[c.k] = CasFrom)
                  /\ c.name = "Get" => ((c.ok <=> m[c.k] # NoValue) /\ c.v = m[c.k])
    /\ AllMade("Cas") =>
          /\ Cardinality({t \in Workers : ret[t].ok}) = 1
          /\ \A i \in DOMAIN log :
                (i > WaitAt /\ log[i].name = "Get" /\ log[i].k = ret[1].k) =>
                    /\ log[i].ok
                    /\ \E t \in Workers : ret[t].ok /\ ret[t].v = log[i].v

\* ------------------------------------------------------------- the runs of values per key
\* The set_get test with values that name their key: two keys of one hash hold
\* the common first value; every other thread then makes one call that writes
\* one of the keys with a value of its own, or reads one, and thread 0 reads
\* both keys.
FirstValue == "x"
OwnCalls ==
    {Set(4, "s4"), Set(5, "s5"), Insert(5, "i5"), GetOrInsert(5, "g5"), GetOrInsert(7, "g7"),
     Cas(2, FirstValue, "c2"), Cas(5, FirstValue, "c5"), Cas(6, FirstValue, "c6")}
OwnSetUp == <<Set(4, FirstValue), Set(6, FirstValue)>>
OwnReads == <<Get(4), Get(5), Get(6), Get(7)>>

InitOwn ==
    /\ InitMap(2)
    /\ \E w \in [Workers -> OwnCalls \cup {Get(4), Get(5)}] :
          /\ w[1] \in OwnCalls
          /\ Run("default", OwnSetUp, [t \in Workers |-> <<w[t]>>], OwnReads)

StepOwn(t) ==
    \/ Call(t)
    \/ WaitDone(t)
    \/ IndexElementData(t)
    \/ IndexElementSlot(t)
    \/ GetValue(t)
    \/ GetNext(t)
    \/ InsertList(t)
    \/ SearchHead(t)
    \/ SearchNext(t)
    \/ UpdateValue(t)
    \/ InsertAtStorePrevious(t)
    \/ InsertAtStoreNext(t)
    \/ InsertAtCasNext(t)
    \/ InsertAtCasPrevious(t)
    \/ InsertAtCount(t)
    \/ AddItemLoad(t)
    \/ AddItemCas(t)
    \/ AddItemCount(t)
    \/ GetOrInsertValue(t)
    \/ GetOrInsertNext(t)
    \/ GetOrInsertAllocate(t)
    \/ CasList(t)
    \/ CasSearchHead(t)
    \/ CasSearchNext(t)
    \/ CasValue(t)
    \/ CasCount(t)

NextOwn == \E t \in Threads : StepOwn(t)

SpecOwn == InitOwn /\ [][NextOwn]_vars

\* The values that the calls of a run supply for key k.
SuppliedFor(k) ==
    {c.v : c \in {d \in OwnCalls \cup {OwnSetUp[i] : i \in DOMAIN OwnSetUp} : d.k = k}}

\* C14: a Get(k) that returns found, and a GetOrInsert(k) that returns the
\* value it loaded, return a value that a Set, Insert, GetOrInsert or Cas of
\* the run supplied for the key k.
C14_ValueOfOwnKey ==
    \A t \in Threads :
        (pc[t] = "idle" /\ ret[t].name \in {"Get", "GetOrInsert"} /\ ret[t].ok) =>
            ret[t].v \in SuppliedFor(ret[t].k)

\* ------------------------------------------------------------- iteration
\* Three entries, then an Iter beside goroutines that insert and delete other
\* keys; the keys of StableKeys are stored before the Iter and never deleted.
IterSetUp == <<Set(2, "a"), Set(6, "a"), Set(10, "a")>>
StableKeys == {2, 10}
IterWrites ==
    {<<Del(6)>>, <<Insert(4, "b"), Del(6)>>, <<Del(6), Insert(6, "b")>>, <<Insert(7, "b")>>,
     <<Del(6), Insert(5, "b")>>, <<Insert(12, "b")>>,
     <<Insert(7, "b"), Del(6), Insert(6, "b")>>}

InitIter ==
    /\ InitMap(4)
    /\ \E w \in [Workers -> IterWrites] :
          Run("default", IterSetUp,
              [t \in Workers |-> IF t = 1 THEN <<Iter(0)>> ELSE w[t]], <<>>)

StepIter(t) ==
    \/ Call(t)
    \/ WaitDone(t)
    \/ IndexElementData(t)
    \/ IndexElementSlot(t)
    \/ InsertList(t)
    \/ SearchHead(t)
    \/ SearchNext(t)
    \/ InsertAtStorePrevious(t)
    \/ InsertAtStoreNext(t)
    \/ InsertAtCasNext(t)
    \/ InsertAtCasPrevious(t)
    \/ InsertAtCount(t)
    \/ AddItemLoad(t)
    \/ AddItemCas(t)
    \/ AddItemCount(t)
    \/ InsertResize(t)
    \/ DelList(t)
    \/ DelNext(t)
    \/ DeleteElementData(t)
    \/ DeleteElementNext(t)
    \/ DeleteElementCas(t)
    \/ DeleteElementCheck(t)
    \/ ListDeleteFlag(t)
    \/ ListDeletePrevious(t)
    \/ ListDeleteNext(t)
    \/ ListDeleteCas(t)
    \/ ListDeleteFix(t)
    \/ ListDeleteCount(t)
    \/ IterList(t)
    \/ IterFirst(t)
    \/ IterValue(t)
    \/ IterNext(t)

NextIter == (\E t \in Threads : StepIter(t)) \/ GrowStep

SpecIter == InitIter /\ [][NextIter]_vars

\* The keys an Iter has sent, in the order it sent them.
KeysSeen(seen) == [i \in DOMAIN seen |-> seen[i].k]
\* Thread t has returned from an Iter that ran to the end of the list.
Iterated(t) == pc[t] = "idle" /\ ret[t].name = "Iter" /\ ret[t].ok

\* C15: an Iter that runs beside inserts and deletes sends every key that is
\* stored before it starts and that no call deletes at least once, and sends
\* no key more than once.
C15_IterWeaklyConsistent ==
    \A t \in Threads :
        Iterated(t) =>
            LET ks == KeysSeen(ret[t].v)
            IN  /\ \A k \in StableKeys : \E i \in DOMAIN ks : ks[i] = k
                /\ \A i, j \in DOMAIN ks : i # j => ks[i] # ks[j]

\* ------------------------------------------------------------- range
\* TestRange: a range over the empty map, over the map after Sets, and a range
\* whose callback returns false; then the same after an update and deletes.
RangeCalls(k1, k2, k3) ==
    <<Iter(0), Iter(1), Set(k1, "a"), Set(k2, "b"), Set(k3, "c"), Iter(0), Iter(1),
      Set(k2, "c"), Del(k1), Iter(0), Iter(2), Del(k3), Del(k2), Iter(0)>>

InitRange ==
    \E size \in {0, 2, 8} :
        /\ InitMap(size)
        /\ \E ks \in {<<6, 4, 2>>, <<2, 4, 5>>, <<4, 12, 8>>} :
              Alone(RangeCalls(ks[1], ks[2], ks[3]))

StepRange(t) ==
    \/ Call(t)
    \/ WaitDone(t)
    \/ IndexElementData(t)
    \/ IndexElementSlot(t)
    \/ AllocateList(t)
    \/ AllocateFlag(t)
    \/ InsertList(t)
    \/ SearchHead(t)
    \/ SearchNext(t)
    \/ UpdateValue(t)
    \/ InsertAtStorePrevious(t)
    \/ InsertAtStoreNext(t)
    \/ InsertAtCasNext(t)
    \/ InsertAtCasPrevious(t)
    \/ InsertAtCount(t)
    \/ AddItemLoad(t)
    \/ AddItemCas(t)
    \/ AddItemCount(t)
    \/ InsertResize(t)
    \/ DelList(t)
    \/ DelNext(t)
    \/ DeleteElementData(t)
    \/ DeleteElementNext(t)
    \/ DeleteElementCas(t)
    \/ DeleteElementCheck(t)
    \/ ListDeleteFlag(t)
    \/ ListDeletePrevious(t)
    \/ ListDeleteNext(t)
    \/ ListDeleteCas(t)
    \/ ListDeleteFix(t)
    \/ ListDeleteCount(t)
    \/ IterList(t)
    \/ IterFirst(t)
    \/ IterValue(t)
    \/ IterNext(t)

NextRange == (\E t \in Threads : StepRange(t)) \/ GrowStep

SpecRange == InitRange /\ [][NextRange]_vars

\* The keys that the first i calls of the log have left in the map.
LiveKeys(i) == {k \in Keys : Content(i)[k] # NoValue}
\* The number of items a range sends whose callback stops it after stop items.
SentOf(stop, n) == IF stop = 0 \/ stop > n THEN n ELSE stop

\* C16: with no other goroutine writing, a range calls the callback once for
\* every live key, with the value stored for the key, no times on an empty
\* map, and not again after the callback has returned false.
C16_RangeSequential ==
    \A i \in DOMAIN log :
        log[i].name = "Iter" =>
            LET seen == log[i].v
                m == Content(i - 1)
            IN  /\ Len(seen) = SentOf(log[i].k, Cardinality(LiveKeys(i - 1)))
                /\ \A j \in DOMAIN seen :
                      /\ seen[j].k \in LiveKeys(i - 1)
                      /\ seen[j].v = m[seen[j].k]
                /\ \A j, l \in DOMAIN seen : j # l => seen[j].k # seen[l].k
                /\ log[i].ok <=> (log[i].k = 0 \/ Len(seen) < log[i].k)

\* ------------------------------------------------------------- the resizing flag
\* The three ways into grow at once: Grow(n) calls, a Set that fills New(2)
\* past MaxFillRate, and the first Set on a HashMap{}, which allocates.
FlagCalls == {<<Grow(0)>>, <<Grow(4)>>, <<Set(12, "a")>>}

InitFlag ==
    \/ /\ InitMap(2)
       /\ \E w \in [Workers -> FlagCalls] : Run("default", <<Set(6, "a")>>, w, <<>>)
    \/ /\ InitMap(0)
       /\ \E w \in [Workers -> {<<Grow(4)>>, <<Set(12, "a")>>, <<Set(4, "a")>>}] :
             Run("default", <<>>, w, <<>>)

StepFlag(t) ==
    \/ Call(t)
    \/ WaitDone(t)
    \/ IndexElementData(t)
    \/ IndexElementSlot(t)
    \/ AllocateList(t)
    \/ AllocateFlag(t)
    \/ InsertList(t)
    \/ SearchHead(t)
    \/ SearchNext(t)
    \/ UpdateValue(t)
    \/ InsertAtStorePrevious(t)
    \/ InsertAtStoreNext(t)
    \/ InsertAtCasNext(t)
    \/ InsertAtCasPrevious(t)
    \/ InsertAtCount(t)
    \/ AddItemLoad(t)
    \/ AddItemCas(t)
    \/ AddItemCount(t)
    \/ InsertResize(t)
    \/ GrowFlag(t)

NextFlag == (\E t \in Threads : StepFlag(t)) \/ GrowStep

SpecFlag == InitFlag /\ [][NextFlag]_vars

\* Thread t leaves the compare-and-swap of the resizing flag in Grow, in
\* insertListElement or in allocate.
TriesFlag(t) == pc[t] \in {"grow_flag", "ins_resize", "al_flag"} /\ pc'[t] # pc[t]

\* C17: grow runs only with the resizing flag set, and a thread that finds the
\* flag set or a grow running, in Grow(n), in the Set that passes the fill rate
\* or in allocate, starts no grow and changes neither the store nor the flag.
C17_OneGrower ==
    [][/\ gpc' # "idle" => resizing' = 1
       /\ \A t \in Threads :
             (TriesFlag(t) /\ (resizing = 1 \/ gpc # "idle")) =>
                 UNCHANGED <<gpc, g, stores, datamap, resizing>>]_vars

\* Both threads have returned from calls that lead to grow and the one grow
\* that ran is over: the map has the store of New(2) and one more.
C17_SecondGrowRefused ==
    /\ \A t \in Workers : pc[t] = "idle" /\ prog[t] = <<>> /\ ret[t].name \in {"Grow", "Set"}
    /\ \E t \in Workers : ret[t].name = "Grow"
    /\ gpc = "idle" /\ resizing = 0
    /\ Len(stores) = 2 /\ datamap = 2

\* ------------------------------------------------------------- the size Grow installs
\* Grow(hint) on New(2) and on New(4) holding one key, for every hint up to the
\* largest index of the model, while the other threads look up a second key.
Hints == 0..Pow2(WordBits)

InitHint ==
    \E c \in {2, 4} :
        /\ InitMap(c)
        /\ \E hint \in Hints :
              Run("default", <<Set(6, "a")>>,
                  [t \in Workers |-> IF t = 1 THEN <<Grow(hint)>> ELSE <<Get(7)>>],
                  <<Get(6)>>)

StepHint(t) ==
    \/ Call(t)
    \/ WaitDone(t)
    \/ IndexElementData(t)
    \/ IndexElementSlot(t)
    \/ GetValue(t)
    \/ GetNext(t)
    \/ InsertList(t)
    \/ SearchHead(t)
    \/ InsertAtStorePrevious(t)
    \/ InsertAtStoreNext(t)
    \/ InsertAtCasNext(t)
    \/ InsertAtCount(t)
    \/ AddItemLoad(t)
    \/ AddItemCas(t)
    \/ AddItemCount(t)
    \/ GrowFlag(t)

NextHint == (\E t \in Threads : StepHint(t)) \/ GrowStep

SpecHint == InitHint /\ [][NextHint]_vars

\* round_up_pow2(max(hint, 2 * c)).
SizeFor(hint, c) == roundUpPower2(IF hint > 2 * c THEN hint ELSE 2 * c)

\* C18: the store that the grow of Grow(hint) installs on a store of c slots
\* has round_up_pow2(max(hint, 2 * c)) slots, which are not fewer than c.
C18_GrowInstallsSize ==
    (ret[1].name = "Grow" /\ datamap >= 2) =>
        /\ stores[2].size = SizeFor(ret[1].k, stores[1].size)
        /\ stores[2].size >= stores[1].size

\* ------------------------------------------------------------- the fill rate
\* Sets, Dels and Grows on New(2) by the threads at once, then a Set and a Del
\* by one thread; grow runs when it is scheduled.
FillWrites ==
    {<<Set(12, "a"), Del(12)>>, <<Grow(0)>>}

InitFill ==
    /\ InitMap(2)
    /\ \E w \in [Workers -> FillWrites] :
          Run("default", <<>>, [t \in Workers |-> IF t = 1 THEN <<Set(4, "a"), Del(4)>> ELSE w[t]],
              <<Set(12, "c"), Del(13)>>)

StepFill(t) ==
    \/ Call(t)
    \/ WaitDone(t)
    \/ IndexElementData(t)
    \/ IndexElementSlot(t)
    \/ InsertList(t)
    \/ SearchHead(t)
    \/ SearchNext(t)
    \/ UpdateValue(t)
    \/ InsertAtStorePrevious(t)
    \/ InsertAtStoreNext(t)
    \/ InsertAtCasNext(t)
    \/ InsertAtCasPrevious(t)
    \/ InsertAtCount(t)
    \/ AddItemLoad(t)
    \/ AddItemCas(t)
    \/ AddItemCount(t)
    \/ InsertResize(t)
    \/ GrowFlag(t)
    \/ DelList(t)
    \/ DelNext(t)
    \/ DeleteElementData(t)
    \/ DeleteElementNext(t)
    \/ DeleteElementCas(t)
    \/ DeleteElementCheck(t)
    \/ ListDeleteFlag(t)
    \/ ListDeletePrevious(t)
    \/ ListDeleteNext(t)
    \/ ListDeleteCas(t)
    \/ ListDeleteFix(t)
    \/ ListDeleteCount(t)

NextFill == (\E t \in Threads : StepFill(t)) \/ GrowStep

SpecFill == InitFill /\ [][NextFill]_vars

\* C19: Fillrate() of the current store is at most 100 in every state.
C19_FillRateAtMost100 == datamap # 0 => FillrateOf(datamap) <= 100

\* ------------------------------------------------------------- growth under load
\* One goroutine inserts distinct keys into New(2); the grow that its inserts
\* start runs beside it.
LoadKeys == {<<2, 10, 6>>, <<2, 10, 14>>, <<10, 2, 6>>, <<6, 14, 2>>, <<2, 3, 10>>}

InitLoad ==
    /\ InitMap(2)
    /\ \E ks \in LoadKeys :
          Alone(<<Insert(ks[1], "a"), Insert(ks[2], "a"), Insert(ks[3], "a")>>)

StepLoad(t) ==
    \/ Call(t)
    \/ WaitDone(t)
    \/ IndexElementData(t)
    \/ IndexElementSlot(t)
    \/ InsertList(t)
    \/ SearchHead(t)
    \/ SearchNext(t)
    \/ InsertAtStorePrevious(t)
    \/ InsertAtStoreNext(t)
    \/ InsertAtCasNext(t)
    \/ InsertAtCasPrevious(t)
    \/ InsertAtCount(t)
    \/ AddItemLoad(t)
    \/ AddItemCas(t)
    \/ AddItemCount(t)
    \/ InsertResize(t)

NextLoad == (\E t \in Threads : StepLoad(t)) \/ GrowStep

SpecLoad == InitLoad /\ [][NextLoad]_vars

\* Every call of the run has returned.
AllReturned == \A t \in Threads : pc[t] = "idle" /\ prog[t] = <<>>

\* C20: once every Insert has returned and resizing is 0 again, Fillrate() of
\* the current store is at most MaxFillRate.
C20_FillAfterGrowth ==
    (AllReturned /\ resizing = 0) => FillrateOf(datamap) <= MaxFillRate

\* ------------------------------------------------------------- the slots of the index
\* C21: every slot of the current store that is not nil holds an element whose
\* hash, shifted by keyshifts, is the number of the slot.
C21_SlotHoldsOwnHash ==
    datamap # 0 =>
        \A i \in DOMAIN stores[datamap].index :
            LET e == stores[datamap].index[i]
            IN  e # NIL => SlotOf(datamap, keyHash(e)) = i

\* ------------------------------------------------------------- progress of one thread
\* On New(8) with the keys 2 and 6, thread 1 makes one Set, Insert or Del and
\* the other threads make Inserts and Dels of the neighbouring keys.  Thread 1
\* is scheduled again and again; the other threads may stop wherever they are.
SoloCalls == {<<Del(6)>>, <<Del(7)>>, <<Insert(4, "b")>>, <<Set(6, "b")>>}
OtherCalls == {<<Insert(4, "c")>>, <<Del(6)>>, <<Insert(5, "c"), Del(2)>>}

InitSolo ==
    /\ InitMap(8)
    /\ \E c \in SoloCalls, w \in [Workers -> OtherCalls] :
          Run("default", <<Set(2, "a"), Set(6, "a")>>,
              [t \in Workers |-> IF t = 1 THEN c ELSE w[t]], <<>>)

StepSolo(t) ==
    \/ Call(t)
    \/ WaitDone(t)
    \/ IndexElementData(t)
    \/ IndexElementSlot(t)
    \/ InsertList(t)
    \/ SearchHead(t)
    \/ SearchNext(t)
    \/ UpdateValue(t)
    \/ InsertAtStorePrevious(t)
    \/ InsertAtStoreNext(t)
    \/ InsertAtCasNext(t)
    \/ InsertAtCasPrevious(t)
    \/ InsertAtCount(t)
    \/ AddItemLoad(t)
    \/ AddItemCas(t)
    \/ AddItemCount(t)
    \/ DelList(t)
    \/ DelNext(t)
    \/ DeleteElementData(t)
    \/ DeleteElementNext(t)
    \/ DeleteElementCas(t)
    \/ DeleteElementCheck(t)
    \/ ListDeleteFlag(t)
    \/ ListDeletePrevious(t)
    \/ ListDeleteNext(t)
    \/ ListDeleteCas(t)
    \/ ListDeleteFix(t)
    \/ ListDeleteCount(t)

NextSolo == \E t \in Threads : StepSolo(t)

SpecSolo == InitSolo /\ [][NextSolo]_vars /\ WF_vars(StepSolo(1))

\* C22: thread 1, which goes on taking steps whatever the other threads do,
\* returns from every Set, Insert and Del it has started.
C22_SoloFinishes == (pc[1] # "idle") ~> (pc[1] = "idle")

\* ------------------------------------------------------------- GetOrInsert beside Del
\* TestHashMap_parallel, get-or-insert-and-delete: on New(2), whose second Set
\* starts a grow, thread 1 calls GetOrInsert on a key twice and the other
\* threads delete that key.  Every thread and the grow are scheduled again and
\* again.
InitGoi ==
    /\ InitMap(2)
    /\ Run("default", <<Set(2, "a"), Set(12, "a")>>,
           [t \in Workers |-> IF t = 1 THEN <<GetOrInsert(4, "b"), GetOrInsert(4, "c")>>
                              ELSE <<Del(4)>>],
           <<>>)

StepGoi(t) ==
    \/ Call(t)
    \/ WaitDone(t)
    \/ IndexElementData(t)
    \/ IndexElementSlot(t)
    \/ InsertList(t)
    \/ SearchHead(t)
    \/ SearchNext(t)
    \/ InsertAtStorePrevious(t)
    \/ InsertAtStoreNext(t)
    \/ InsertAtCasNext(t)
    \/ InsertAtCasPrevious(t)
    \/ InsertAtCount(t)
    \/ AddItemLoad(t)
    \/ AddItemCas(t)
    \/ AddItemCount(t)
    \/ InsertResize(t)
    \/ GetOrInsertValue(t)
    \/ GetOrInsertNext(t)
    \/ GetOrInsertAllocate(t)
    \/ DelList(t)
    \/ DelNext(t)
    \/ DeleteElementData(t)
    \/ DeleteElementNext(t)
    \/ DeleteElementCas(t)
    \/ DeleteElementCheck(t)
    \/ ListDeleteFlag(t)
    \/ ListDeletePrevious(t)
    \/ ListDeleteNext(t)
    \/ ListDeleteCas(t)
    \/ ListDeleteFix(t)
    \/ ListDeleteCount(t)

NextGoi == (\E t \in Threads : StepGoi(t)) \/ GrowStep

SpecGoi ==
    /\ InitGoi
    /\ [][NextGoi]_vars
    /\ \A t \in Threads : WF_vars(StepGoi(t))
    /\ WF_vars(GrowStep)

\* C23: every GetOrInsert that has been called returns.
C23_GetOrInsertReturns ==
    \A t \in Workers : (op[t].name = "GetOrInsert") ~> (op[t].name # "GetOrInsert")

\* ------------------------------------------------------------- the end of grow
\* The calls of SpecFlag on New(2), and on a HashMap{} first Sets beside
\* Grow(0); every thread and the grow are scheduled again and again.
InitEnd ==
    \/ /\ InitMap(2)
       /\ \E w \in [Workers -> FlagCalls] : Run("default", <<Set(6, "a")>>, w, <<>>)
    \/ /\ InitMap(0)
       /\ \E w \in [Workers -> {<<Grow(0)>>, <<Set(12, "a")>>, <<Set(4, "a")>>}] :
             Run("default", <<>>, w, <<>>)

SpecEnd ==
    /\ InitEnd
    /\ [][NextFlag]_vars
    /\ \A t \in Threads : WF_vars(StepFlag(t))
    /\ WF_vars(GrowStep)

ReadCalls == {<<Get(6)>>, <<Get(7)>>, <<Get(12)>>}
ReadWrites == {<<Set(4, "b"), Set(12, "b")>>, <<Del(7), Del(2)>>, <<Grow(0)>>}

InitRead ==
    \/ /\ InitMap(2)
       /\ \E r \in ReadCalls : \E w \in [Workers -> ReadWrites] :
             Run("default", <<Set(2, "a"), Set(6, "a")>>,
                 [t \in Workers |-> IF t = 1 THEN r ELSE w[t]], <<>>)
    \/ /\ InitMap(0)
       /\ Run("default", <<>>,
              [t \in Workers |-> IF t = 1 THEN <<Get(4)>> ELSE <<Set(4, "a")>>], <<>>)

StepRead(t) ==
    \/ Call(t)
    \/ WaitDone(t)
    \/ IndexElementData(t)
    \/ IndexElementSlot(t)
    \/ GetValue(t)
    \/ GetNext(t)
    \/ AllocateList(t)
    \/ AllocateFlag(t)
    \/ InsertList(t)
    \/ SearchHead(t)
    \/ SearchNext(t)
    \/ InsertAtStorePrevious(t)
    \/ InsertAtStoreNext(t)
    \/ InsertAtCasNext(t)
    \/ InsertAtCasPrevious(t)
    \/ InsertAtCount(t)
    \/ AddItemLoad(t)
    \/ AddItemCas(t)
    \/ AddItemCount(t)
    \/ InsertResize(t)
    \/ GrowFlag(t)
    \/ DelList(t)
    \/ DelNext(t)
    \/ DeleteElementData(t)
    \/ DeleteElementNext(t)
    \/ DeleteElementCas(t)
    \/ DeleteElementCheck(t)
    \/ ListDeleteFlag(t)
    \/ ListDeletePrevious(t)
    \/ ListDeleteNext(t)
    \/ ListDeleteCas(t)
    \/ ListDeleteFix(t)
    \/ ListDeleteCount(t)

NextRead == (\E t \in Threads : StepRead(t)) \/ GrowStep

SpecRead == InitRead /\ [][NextRead]_vars /\ WF_vars(StepRead(1))

\* A step that thread t takes inside Get.
InGet(t) == op[t].name = "Get" /\ <<pc[t], loc[t]>>' # <<pc[t], loc[t]>>

FirstCalls ==
    {<<Insert(12, "a"), Insert(4, "a")>>, <<Insert(6, "b")>>, <<Set(6, "b")>>,
     <<GetOrInsert(12, "c")>>}
FirstReads == <<Get(4), Get(6), Get(12)>>

InitFirst ==
    /\ InitMap(0)
    /\ \E w \in [Workers -> FirstCalls] : Run("default", <<>>, w, FirstReads)

StepFirst(t) ==
    \/ Call(t)
    \/ WaitDone(t)
    \/ IndexElementData(t)
    \/ IndexElementSlot(t)
    \/ GetValue(t)
    \/ AllocateList(t)
    \/ AllocateFlag(t)
    \/ InsertList(t)
    \/ SearchHead(t)
    \/ SearchNext(t)
    \/ UpdateValue(t)
    \/ InsertAtStorePrevious(t)
    \/ InsertAtStoreNext(t)
    \/ InsertAtCasNext(t)
    \/ InsertAtCasPrevious(t)
    \/ InsertAtCount(t)
    \/ AddItemLoad(t)
    \/ AddItemCas(t)
    \/ AddItemCount(t)
    \/ GetOrInsertValue(t)
    \/ GetOrInsertAllocate(t)

\* allocate calls grow(DefaultSize, false), which does not loop.
GrowStepFirst ==
    \/ GrowData
    \/ FillList
    \/ FillFirst
    \/ FillNext
    \/ GrowAddItemLoad
    \/ GrowAddItemCas
    \/ GrowAddItemCount
    \/ GrowStore
    \/ GrowRelease

NextFirst == (\E t \in Threads : StepFirst(t)) \/ GrowStepFirst

SpecFirst == InitFirst /\ [][NextFirst]_vars

\* The keys of the calls made: every call has allocated an element for its
\* key, or has found the element of another call.
CalledKeys == {key[n] : n \in 1..nalloc}

\* C26: when the first calls on a HashMap{} have returned, the map has its
\* list and one store of DefaultSize slots, the key of every call is an entry
\* of the list, and the Get of it that follows finds it.
C26_FirstCallsStored ==
    AllReturned =>
        /\ linkedlist = 1
        /\ datamap = 1 /\ Len(stores) = 1 /\ stores[1].size = DefaultSize
        /\ \A k \in CalledKeys :
              /\ LiveOf(k) # {}
              /\ \A i \in DOMAIN log : (log[i].name = "Get" /\ log[i].k = k) => log[i].ok

\* ------------------------------------------------------------- the kind of a key
\* The key true, of kind bool: the other keys of the model are of kind int.
BoolKey == NIL - 1
KindOf(k) == IF k = BoolKey THEN "bool" ELSE "int"

\* The cases of the type switch of getKeyHash.
HashedKinds == {"string", "bytes", "int", "uint", "uintptr"}

\* A call with a key that getKeyHash has no case for.  Get, Set, Insert and
\* GetOrInsert hash the key first and panic; Del loads the list first and
\* returns when the map has none.
RejectKey(t) ==
    /\ ~crashed
    /\ pc[t] = "idle"
    /\ prog[t] # <<>>
    /\ IF t = 0 THEN TRUE ELSE pc[0] = "wait"
    /\ LET o == Head(prog[t])
       IN  /\ KindOf(o.k) \notin HashedKinds
           /\ IF o.name = "Del" /\ linkedlist = 0
              THEN /\ prog' = [prog EXCEPT ![t] = Tail(@)]
                   /\ ret' = [ret EXCEPT ![t] = [NoRet EXCEPT !.name = o.name, !.k = o.k]]
                   /\ log' = IF t = 0
                             THEN Append(log, [name |-> o.name, k |-> o.k, ok |-> FALSE,
                                               v |-> NoValue, len |-> listCount])
                             ELSE log
                   /\ UNCHANGED crashed
              ELSE /\ crashed' = TRUE
                   /\ UNCHANGED <<prog, ret, log>>
    /\ UNCHANGED <<hasher, heapVars, mapVars, op, pc, loc, growVars, settled, expect>>

\* A call with a key that getKeyHash hashes.
CallHashed(t) ==
    /\ prog[t] # <<>>
    /\ KindOf(Head(prog[t]).k) \in HashedKinds
    /\ Call(t)

\* Each thread makes a call with the key true, a Set and then such a call, or
\* a Get of key 2, on a HashMap{} and on New(8) holding key 2.
KindCalls ==
    {<<Get(BoolKey)>>, <<Set(BoolKey, "a")>>, <<Insert(BoolKey, "a")>>,
     <<GetOrInsert(BoolKey, "a")>>, <<Del(BoolKey)>>, <<Set(4, "a"), Del(BoolKey)>>,
     <<Get(2)>>}

InitKind ==
    \E size \in {0, DefaultSize} :
        /\ InitMap(size)
        /\ \E w \in [Workers -> KindCalls] :
              Run("default", IF size = 0 THEN <<>> ELSE <<Set(2, "a")>>, w, <<Get(4)>>)

StepKind(t) ==
    \/ CallHashed(t)
    \/ RejectKey(t)
    \/ WaitDone(t)
    \/ IndexElementData(t)
    \/ IndexElementSlot(t)
    \/ GetValue(t)
    \/ AllocateList(t)
    \/ AllocateFlag(t)
    \/ InsertList(t)
    \/ SearchHead(t)
    \/ SearchNext(t)
    \/ UpdateValue(t)
    \/ InsertAtStorePrevious(t)
    \/ InsertAtStoreNext(t)
    \/ InsertAtCasNext(t)
    \/ InsertAtCount(t)
    \/ AddItemLoad(t)
    \/ AddItemCas(t)
    \/ AddItemCount(t)

NextKind == (\E t \in Threads : StepKind(t)) \/ GrowStepFirst

SpecKind == InitKind /\ [][NextKind]_vars

\* C27: no call with a key of a kind that getKeyHash does not hash returns,
\* and no element holds such a key.
C27_UnhashedKeyRejected ==
    /\ \A t \in Threads : ret[t].name # "none" => KindOf(ret[t].k) \in HashedKinds
    /\ \A n \in 1..nalloc : KindOf(key[n]) \in HashedKinds

\* ------------------------------------------------------------- New
New(size) == [name |-> "New", k |-> size, v |-> NoValue]

\* New: m := &HashMap{}; m.allocate(size), whose two CompareAndSwaps succeed
\* on the map that no other thread has yet, and which calls grow(size, false).
NewAllocate(t) ==
    /\ ~crashed
    /\ pc[t] = "idle"
    /\ prog[t] # <<>>
    /\ Head(prog[t]).name = "New"
    /\ linkedlist = 0 /\ resizing = 0
    /\ linkedlist' = 1
    /\ resizing' = 1
    /\ StartGrow(Head(prog[t]).k, FALSE, NoThread)
    /\ prog' = [prog EXCEPT ![t] = Tail(@)]
    /\ op' = [op EXCEPT ![t] = Head(prog[t])]
    /\ pc' = [pc EXCEPT ![t] = "new_grow"]
    /\ UNCHANGED <<hasher, heapVars, stores, datamap, loc, ret, crashed, histVars>>

\* New: grow has returned, return m.
NewReturn(t) ==
    /\ ~crashed
    /\ pc[t] = "new_grow"
    /\ gpc = "idle"
    /\ Finish(t, TRUE, NoValue)
    /\ UNCHANGED <<hasher, heapVars, mapVars, growVars, crashed>>

\* A call on the map that New has returned.
CallOnMap(t) ==
    /\ prog[t] # <<>>
    /\ Head(prog[t]).name # "New"
    /\ Call(t)

\* New(size) for every size up to the largest index of the model, then a Set,
\* Gets of the other threads, and a Get.
InitNew ==
    /\ InitMap(0)
    /\ \E size \in 0..Pow2(WordBits) :
          Run("default", <<New(size), Set(6, "a")>>, [t \in Workers |-> <<Get(6)>>],
              <<Get(6)>>)

StepNew(t) ==
    \/ NewAllocate(t)
    \/ NewReturn(t)
    \/ CallOnMap(t)
    \/ WaitDone(t)
    \/ IndexElementData(t)
    \/ IndexElementSlot(t)
    \/ GetValue(t)
    \/ InsertList(t)
    \/ SearchHead(t)
    \/ InsertAtStorePrevious(t)
    \/ InsertAtStoreNext(t)
    \/ InsertAtCasNext(t)
    \/ InsertAtCount(t)
    \/ AddItemLoad(t)
    \/ AddItemCas(t)
    \/ AddItemCount(t)
    \/ InsertResize(t)

NextNew == (\E t \in Threads : StepNew(t)) \/ GrowStep

SpecNew == InitNew /\ [][NextNew]_vars

\* The least power of two that is at least n.
LeastPower2(n) ==
    CHOOSE p \in {Pow2(i) : i \in 0..(WordBits + 1)} :
        p >= n /\ \A i \in 0..(WordBits + 1) : Pow2(i) >= n => Pow2(i) >= p

\* C28: New(size) does not fail, and the map it returns has a store of the
\* least power of two that is at least size and at least 2.
C28_NewSize ==
    /\ op[0].name = "New" => ~crashed
    /\ (log # <<>> /\ log[1].name = "New") =>
           stores[1].size = LeastPower2(IF log[1].k > 2 THEN log[1].k ELSE 2)

\* ------------------------------------------------------------- the default hasher
\* A uint64 is the sequence of its bytes, the lowest first: the products of
\* the hasher wrap at 2^64 and are formed byte by byte.
intSizeBytes == 8
IntSize == intSizeBytes * 8

RECURSIVE BytesOf(_, _)
BytesOf(n, len) == IF len = 0 THEN <<>> ELSE <<n % 256>> \o BytesOf(n \div 256, len - 1)
\* uint64(n) for a number n of the model.
Uint64(n) == BytesOf(n, intSizeBytes)

RECURSIVE AddFrom(_, _, _, _)
AddFrom(a, b, i, carry) ==
    IF i > intSizeBytes THEN <<>>
    ELSE LET sum == a[i] + b[i] + carry
         IN  <<sum % 256>> \o AddFrom(a, b, i + 1, sum \div 256)
\* a + b of uint64.
Add64(a, b) == AddFrom(a, b, 1, 0)

RECURSIVE Column(_, _, _, _)
Column(a, b, i, j) == IF j > i THEN 0 ELSE a[j] * b[i - j + 1] + Column(a, b, i, j + 1)
RECURSIVE MulFrom(_, _, _, _)
MulFrom(a, b, i, carry) ==
    IF i > intSizeBytes THEN <<>>
    ELSE LET sum == Column(a, b, i, 1) + carry
         IN  <<sum % 256>> \o MulFrom(a, b, i + 1, sum \div 256)
\* a * b of uint64.
Mul64(a, b) == MulFrom(a, b, 1, 0)

\* Bit n of a uint64, and the uint64 of the bits f.
Bit(w, n) == (w[(n \div 8) + 1] \div Pow2(n % 8)) % 2
RECURSIVE ByteAt(_, _, _)
ByteAt(f, base, b) == IF b = 8 THEN 0 ELSE f[base + b] * Pow2(b) + ByteAt(f, base, b + 1)
FromBits(f) == [i \in 1..intSizeBytes |-> ByteAt(f, 8 * (i - 1), 0)]

\* a ^ b, w >> n and bits.RotateLeft64(w, r).
Xor64(a, b) == FromBits([i \in 0..(IntSize - 1) |-> (Bit(a, i) + Bit(b, i)) % 2])
Shr64(w, n) == FromBits([i \in 0..(IntSize - 1) |-> IF i + n < IntSize THEN Bit(w, i + n) ELSE 0])
RotateLeft64(w, r) == FromBits([i \in 0..(IntSize - 1) |-> Bit(w, (i + IntSize - r) % IntSize)])

\* The uint64 of the eight bytes bs, the highest first.
BigEndian(bs) == [i \in 1..intSizeBytes |-> bs[intSizeBytes + 1 - i]]

\* 11400714785074694791
prime1 == BigEndian(<<\h9E, \h37, \h79, \hB1, \h85, \hEB, \hCA, \h87>>)
\* 14029467366897019727
prime2 == BigEndian(<<\hC2, \hB2, \hAE, \h3D, \h27, \hD4, \hEB, \h4F>>)
\* 1609587929392839161
prime3 == BigEndian(<<\h16, \h56, \h67, \hB1, \h9E, \h37, \h79, \hF9>>)
\* 9650029242287828579
prime4 == BigEndian(<<\h85, \hEB, \hCA, \h77, \hC2, \hB2, \hAE, \h63>>)
\* 2870177450012600261
prime5 == BigEndian(<<\h27, \hD4, \hEB, \h2F, \h16, \h56, \h67, \hC5>>)

\* h ^= h >> 33; h *= prime2; h ^= h >> 29; h *= prime3; h ^= h >> 32.
Avalanche(h) ==
    LET h1 == Xor64(h, Shr64(h, 33))
        h2 == Mul64(h1, prime2)
        h3 == Xor64(h2, Shr64(h2, 29))
        h4 == Mul64(h3, prime3)
    IN  Xor64(h4, Shr64(h4, 32))

\* The hasher of a key of four bytes would start from prime5 + 4.
Hasher64Seed4(k) ==
    LET k1 == Mul64(RotateLeft64(Mul64(k, prime2), 31), prime1)
        h == Xor64(Add64(prime5, Uint64(4)), k1)
    IN  Avalanche(Add64(Mul64(RotateLeft64(h, 27), prime1), prime4))

\* The hasher that setDefaultHasher binds for a key of eight bytes.
Hasher64(k) ==
    LET k1 == Mul64(RotateLeft64(Mul64(k, prime2), 31), prime1)
        h == Xor64(Add64(prime5, Uint64(8)), k1)
    IN  Avalanche(Add64(Mul64(RotateLeft64(h, 27), prime1), prime4))

\* setDefaultHasher: the switch on the kind of the key, for the kinds of
\* eight bytes on a platform with intSizeBytes = 8.
DefaultHasher(kind, k) ==
    CASE kind \in {"int", "uint", "uintptr"} -> Hasher64(k)
      [] kind \in {"int64", "uint64", "float64"} -> Hasher64(k)

\* m.hasher(k) on a map with keys of the given kind.
HasherCall(kind, k) == [name |-> "hasher", k |-> k, v |-> kind]

\* A thread calls m.hasher(k): ret holds the digest.
ApplyHasher(t) ==
    /\ ~crashed
    /\ pc[t] = "idle"
    /\ prog[t] # <<>>
    /\ Head(prog[t]).name = "hasher"
    /\ LET o == Head(prog[t])
       IN  ret' = [ret EXCEPT ![t] = [name |-> o.name, k |-> o.k, ok |-> TRUE,
                                      v |-> DefaultHasher(o.v, Uint64(o.k)), lk |-> FALSE]]
    /\ prog' = [prog EXCEPT ![t] = Tail(@)]
    /\ UNCHANGED <<hasher, heapVars, mapVars, op, pc, loc, growVars, crashed, histVars>>

\* The threads hash the keys 1 and 2 of a map whose keys are of one kind.
HashedKeys == {1, 2}
InitHash ==
    /\ InitMap(DefaultSize)
    /\ \E kind \in {"uint64", "uintptr", "int"}, k \in [Threads -> HashedKeys] :
          InitHeap("default", [t \in Threads |-> <<HasherCall(kind, k[t])>>])

NextHash == \E t \in Threads : ApplyHasher(t)

SpecHash == InitHash /\ [][NextHash]_vars

\* C29: the hasher of a uint64 map and of a uintptr map returns
\* 0x9f29cb17a2a49995 for the key 1 and 0xeac73e4044e82db0 for the key 2, and
\* the wrapped arithmetic of the digest is that of the 8-byte xxhash64.
C29_Digests ==
    \A t \in Threads :
        ret[t].name = "hasher" =>
            /\ ret[t].k = 1 =>
                 ret[t].v = BigEndian(<<\h9F, \h29, \hCB, \h17, \hA2, \hA4, \h99, \h95>>)
            /\ ret[t].k = 2 =>
                 ret[t].v = BigEndian(<<\hEA, \hC7, \h3E, \h40, \h44, \hE8, \h2D, \hB0>>)

\* The hasher of a uintptr map has hashed the keys 1 and 2.
C29_BothKeysHashed ==
    \E t, u, w \in Threads :
        /\ ret[t].name = "hasher" /\ ret[t].k = 1
        /\ ret[u].name = "hasher" /\ ret[u].k = 2
        /\ prog[w] # <<>> /\ Head(prog[w]).v = "uintptr"

\* ------------------------------------------------------------- the index and the list
\* No call and no grow is running, and the resizing flag is clear.
Quiescent == Quiet /\ resizing = 0 /\ \A t \in Threads : op[t] = NoOp \/ pc[t] = "wait"

\* The element that the walk of Get finds for key k from the slot of its hash
\* in the current store.
Lookup(k) ==
    IF datamap = 0 THEN NIL
    ELSE Find(stores[datamap].index[SlotOf(datamap, Hash(k))], Hash(k), k, MaxNodes + 1)

\* C30: in a quiescent state the lookup of every key through the current
\* store finds what the scan of the list from its head finds.
C30_IndexAgreesWithList == Quiescent => \A k \in Keys : Lookup(k) = Search(k)

\* ------------------------------------------------------------- the slots at rest
\* The elements in the slots of the current store.
Slotted ==
    IF datamap = 0 THEN {}
    ELSE {stores[datamap].index[i] : i \in DOMAIN stores[datamap].index} \ {NIL}

\* C31: in a quiescent state every slot of the current store that holds an
\* element holds one that is linked into the list and not marked deleted.
C31_SlotsHoldEntries == Quiescent => Slotted \subseteq Live

\* The slots of store d that hold an element.
Occupied(d) == {i \in DOMAIN stores[d].index : stores[d].index[i] # NIL}

\* C32: in a quiescent state the count of the current store is the number of
\* its slots that hold an element.
C32_CountIsOccupied ==
    (Quiescent /\ datamap # 0) => stores[datamap].count = Cardinality(Occupied(datamap))

\* ------------------------------------------------------------- the order of the list
\* The elements met from e by Next(), at most fuel of them.
RECURSIVE Path(_, _)
Path(e, fuel) ==
    IF e = NIL \/ fuel = 0 THEN <<>> ELSE <<e>> \o Path(nextElement[e], fuel - 1)

\* The walk of String and of Iter: First(), then Next() to the end.
FromHead == Path(nextElement[ListHead], MaxNodes)

\* HashMap.String: the hashes of the elements of the walk, in its order.
String == [i \in DOMAIN FromHead |-> keyHash(FromHead[i])]

\* C33: in every state the hashes that String lists, those of the elements met
\* from the head by Next(), never decrease from one element to the next, so
\* that elements of one hash are neighbours.
C33_HashesAscending == \A i \in 1..(Len(String) - 1) : String[i] <= String[i + 1]

\* Three elements are linked, the last linked not the last of the list, after
\* a Del has unlinked one.
C33_InsertedBetween ==
    /\ Len(FromHead) >= 3
    /\ \E i \in 1..(Len(FromHead) - 1) : FromHead[i] = nalloc
    /\ \E n \in 1..nalloc : deleted[n] = 1 /\ n \notin Reachable

\* ------------------------------------------------------------- one key, many writers
\* New(8) holding key 6; every other thread makes one call that stores key 5,
\* the first of them possibly key 4, which has the hash of key 5; thread 0 then
\* sets key 5.
SameKey == 5
LaterValue == "z"
SameCalls == {Set(SameKey, "s"), Insert(SameKey, "i"), GetOrInsert(SameKey, "g")}

InitSame ==
    /\ InitMap(8)
    /\ \E w \in [Workers -> SameCalls \cup {Set(4, "s")}] :
          /\ \A t \in Workers \ {1} : w[t] \in SameCalls
          /\ Run("default", <<Set(6, "a")>>, [t \in Workers |-> <<w[t]>>],
                 <<Set(SameKey, LaterValue)>>)

StepSame(t) ==
    \/ Call(t)
    \/ WaitDone(t)
    \/ IndexElementData(t)
    \/ IndexElementSlot(t)
    \/ InsertList(t)
    \/ SearchHead(t)
    \/ SearchNext(t)
    \/ UpdateValue(t)
    \/ InsertAtStorePrevious(t)
    \/ InsertAtStoreNext(t)
    \/ InsertAtCasNext(t)
    \/ InsertAtCasPrevious(t)
    \/ InsertAtCount(t)
    \/ AddItemLoad(t)
    \/ AddItemCas(t)
    \/ AddItemCount(t)
    \/ GetOrInsertValue(t)
    \/ GetOrInsertNext(t)
    \/ GetOrInsertAllocate(t)

NextSame == \E t \in Threads : StepSame(t)

SpecSame == InitSame /\ [][NextSame]_vars

\* The linked elements that hold key k.
EntriesOf(k) == {i \in DOMAIN FromHead : key[FromHead[i]] = k}

\* C34: no two elements met from the head by Next() hold the same key, while
\* the threads store one key at a time and afterwards; the Set that follows
\* links no element of its own: the one element of the key is one that the
\* earlier calls allocated, and it holds the value of that Set.
C34_OneEntryPerKey ==
    /\ \A k \in Keys : Cardinality(EntriesOf(k)) <= 1
    /\ (AllReturned /\ \E t \in Workers : ret[t].k = SameKey) =>
          /\ Search(SameKey) \in 1..(nalloc - 1)
          /\ value[Search(SameKey)] = LaterValue

\* ------------------------------------------------------------- the ends of the hash range
\* TestHashedKey and TestGrow on the two ends: New(2) takes a key of hash 0 and
\* a key of the largest hash, in either order; the other threads read them beside the grow that
\* the Sets start; thread 0 waits for the grow, reads, calls Grow(0), waits,
\* reads, and deletes and reads each key.
LowKey == 1
HighKey == 2 * MaxHash
EdgeValue(k) == IF k = LowKey THEN "a" ELSE "b"
EdgeCalls ==
    <<Rest, Get(LowKey), Get(HighKey), Grow(0), Rest, Get(LowKey), Get(HighKey),
      Del(LowKey), Get(LowKey), Get(HighKey), Del(HighKey), Get(HighKey)>>

InitEdge ==
    /\ InitMap(2)
    /\ \E w \in [Workers -> {Get(LowKey), Get(HighKey)}] :
       \E ks \in {<<LowKey, HighKey>>, <<HighKey, LowKey>>} :
          Run("default", <<Set(ks[1], EdgeValue(ks[1])), Set(ks[2], EdgeValue(ks[2]))>>,
              [t \in Workers |-> <<w[t]>>], EdgeCalls)

StepEdge(t) ==
    \/ Call(t)
    \/ WaitDone(t)
    \/ RestDone(t)
    \/ IndexElementData(t)
    \/ IndexElementSlot(t)
    \/ GetValue(t)
    \/ InsertList(t)
    \/ SearchHead(t)
    \/ SearchNext(t)
    \/ InsertAtStorePrevious(t)
    \/ InsertAtStoreNext(t)
    \/ InsertAtCasNext(t)
    \/ InsertAtCasPrevious(t)
    \/ InsertAtCount(t)
    \/ AddItemLoad(t)
    \/ AddItemCas(t)
    \/ AddItemCount(t)
    \/ InsertResize(t)
    \/ GrowFlag(t)
    \/ DelList(t)
    \/ DeleteElementData(t)
    \/ DeleteElementNext(t)
    \/ DeleteElementCas(t)
    \/ DeleteElementCheck(t)
    \/ ListDeleteFlag(t)
    \/ ListDeletePrevious(t)
    \/ ListDeleteNext(t)
    \/ ListDeleteCas(t)
    \/ ListDeleteFix(t)
    \/ ListDeleteCount(t)

NextEdge == (\E t \in Threads : StepEdge(t)) \/ GrowStep

SpecEdge == InitEdge /\ [][NextEdge]_vars

\* The calls of the given name on key k among the first i that thread 0 made.
Made(name, k, i) == {j \in 1..i : log[j].name = name /\ log[j].k = k}

\* Store d holds the element of key k, where there is one, in slot i.
InSlot(d, k, i) == LiveOf(k) # {} => stores[d].index[i] \in LiveOf(k)

\* C35: the key of hash 0 and the key of the largest hash are stored, counted,
\* found and deleted as the calls say: every Get beside or after the grow
\* finds the value set unless thread 0 has deleted the key before, Len() counts
\* the Sets less the Dels, the first pass of a grow has put the two elements
\* into slot 0 and the last slot of the new store before it is published, and
\* they are in these slots of the current store when the grow is over.
C35_EdgeHashes ==
    /\ \A t \in Workers :
          Returned(t, "Get") => ret[t].ok /\ ret[t].v = EdgeValue(ret[t].k)
    /\ \A i \in DOMAIN log :
          /\ log[i].name = "Get" =>
                /\ log[i].ok = (Made("Del", log[i].k, i) = {})
                /\ log[i].ok => log[i].v = EdgeValue(log[i].k)
          /\ log[i].len = Cardinality({j \in 1..i : log[j].name = "Set"})
                            - Cardinality({j \in 1..i : log[j].name = "Del"})
    /\ gpc = "gr_store" =>
          /\ InSlot(g.nd, LowKey, 0)
          /\ InSlot(g.nd, HighKey, stores[g.nd].size - 1)
    /\ (pc[0] = "idle" /\ resizing = 0 /\ datamap # 0) =>
          /\ InSlot(datamap, LowKey, 0)
          /\ InSlot(datamap, HighKey, stores[datamap].size - 1)

\* Thread 0 has made all its calls, two grows have run, and the list is empty.
C35_EdgesDeleted ==
    /\ prog[0] = <<>>
    /\ pc[0] = "idle"
    /\ Len(log) = Len(EdgeCalls) + 3
    /\ Len(stores) >= 3
    /\ listCount = 0

\* ------------------------------------------------------------- what Cas writes
\* Thread t takes a step of its Cas.
CasSteps(t) == InFlight(t) /\ op[t].name = "Cas" /\ pc'[t] # pc[t]

\* C36: no step of a Cas, whether the Cas returns true or false, writes a key,
\* a link of the list, a deleted flag, the count that Len() returns, a slot or
\* the count of a store, the datamap or the list; the only values it writes
\* are those of elements that hold its key.
C36_CasFrame ==
    [][\A t \in Threads : CasSteps(t) =>
          /\ UNCHANGED <<key, nextElement, previousElement, deleted, nalloc, listCount,
                         mapVars>>
          /\ \A n \in Nodes : value'[n] # value[n] => key[n] = op[t].k]_vars

\* ------------------------------------------------------------- Insert and Get on one key
\* One goroutine inserts three distinct keys into New(2) or New(8), the grow
\* that its inserts start running beside it, waits until no grow is running,
\* and then calls Get, Insert and Get on the key inserted last.
AgreeCalls(ks) ==
    <<Insert(ks[1], "a"), Insert(ks[2], "a"), Insert(ks[3], "a"), Rest,
      Get(ks[3]), Insert(ks[3], "b"), Get(ks[3])>>

InitAgree ==
    \E size \in {2, 8} :
        /\ InitMap(size)
        /\ \E ks \in LoadKeys : Alone(AgreeCalls(ks))

StepAgree(t) ==
    \/ StepLoad(t)
    \/ RestDone(t)
    \/ GetValue(t)

NextAgree == (\E t \in Threads : StepAgree(t)) \/ GrowStep

SpecAgree == InitAgree /\ [][NextAgree]_vars

\* C37: of a Get and an Insert of one key that one goroutine makes one after
\* the other, nothing else running on the key, a Get that finds nothing is
\* followed by an Insert that returns true, and an Insert that returns false
\* is followed by a Get that finds the key.
C37_InsertAgreesWithGet ==
    \A i \in 1..(Len(log) - 1) :
        LET c == log[i]
            d == log[i + 1]
        IN  /\ (c.name = "Get" /\ d.name = "Insert" /\ c.k = d.k /\ ~c.ok) => d.ok
            /\ (c.name = "Insert" /\ d.name = "Get" /\ c.k = d.k /\ ~c.ok) => d.ok

\* ------------------------------------------------------------- Grow before the first Set
\* TestGrow, followed by a Set: Grow(hint) on a HashMap{} for every hint above
\* 0, the wait for resizing == 0, Set and Get of a key, while the other threads
\* look the key up.
FirstKey == 6

InitSized ==
    /\ InitMap(0)
    /\ \E hint \in 1..Pow2(WordBits) :
          Run("default", <<Grow(hint)>>, [t \in Workers |-> <<Get(FirstKey)>>],
              <<Rest, Set(FirstKey, "a"), Get(FirstKey)>>)

StepSized(t) ==
    \/ Call(t)
    \/ WaitDone(t)
    \/ RestDone(t)
    \/ IndexElementData(t)
    \/ IndexElementSlot(t)
    \/ GrowFlag(t)
    \/ InsertList(t)

GrowStepSized ==
    \/ GrowData
    \/ FillList
    \/ GrowStore
    \/ GrowLenList
    \/ GrowLen
    \/ GrowRelease

NextSized == (\E t \in Threads : StepSized(t)) \/ GrowStepSized

SpecSized == InitSized /\ [][NextSized]_vars

\* C38: the Set that follows Grow(hint) and the wait for resizing == 0 on a
\* HashMap{} does not panic, and once it has returned the list holds its
\* element, Len() is 1 and the Get that follows returns its value.
C38_SetAfterGrow ==
    /\ op[0].name = "Set" => ~crashed
    /\ \A i \in DOMAIN log :
          /\ log[i].name = "Set" => (log[i].len = 1 /\ LiveOf(FirstKey) # {})
          /\ log[i].name = "Get" => (log[i].ok /\ log[i].v = "a")

\* ------------------------------------------------------------- the back links
\* C39: in a quiescent state the previous element of every element met from
\* the head by Next() is the element met before it, and that of the first one
\* is the head of the list.
C39_PreviousMirrorsNext ==
    Quiescent =>
        \A i \in DOMAIN FromHead :
            previousElement[FromHead[i]] = (IF i = 1 THEN ListHead ELSE FromHead[i - 1])

====
